---- MODULE Spec2Model ----
(***************************************************************************)
(* agenttrace-core: the alert evaluator (alerting/evaluator.rs with the    *)
(* alert repository and the notification sender) and the ingestion         *)
(* pipeline (collector/pipeline.rs) as state machines.                     *)
(*                                                                         *)
(* Spec        the alert evaluator and the alert tables                    *)
(* PipeSpec    the ingestion pipeline: submitters, input channel, loop     *)
(* StreamSpec  the pipeline publishing to Redis, with a subscription       *)
(* SubSpec     a subscription fed by other publishers                      *)
(* CostSpec    the cost calculator applied to spans                        *)
(* StoreSpec   the span repository's inserts on the spans table            *)
(* AckSpec     the evaluator with the acknowledge request                  *)
(* RuleSpec    the create and update requests on the alert rules           *)
(* TestSpec    the evaluator with the test request of a rule               *)
(* NotifySpec  the evaluator of a rule with notification channels          *)
(* EnrichSpec  enrich_span applied to spans                                *)
(* EnrichLoopSpec  the pipeline with a preview cut inside a character      *)
(* PassSpec    the passes of evaluate_all over the enabled rules           *)
(* NoThresholdSpec  the evaluator of a rule without a threshold            *)
(* FairRetireSpec   the passes with rules disabled and deleted             *)
(* ConcSpec    two concurrent evaluate_rule calls on one rule              *)
(***************************************************************************)
EXTENDS Integers, Sequences, FiniteSets, TLC

VARIABLES
    alert_rules,      \* table alert_rules: rule id -> AlertRule
    alert_events,     \* table alert_events: sequence of rows, id = position
    failure_counts,   \* AlertEvaluator.failure_counts: rule id -> i32
    active_alerts,    \* AlertEvaluator.active_alerts: rule id -> AlertEvent
    send_log,         \* one entry per NotificationSender::send_all call
    last_eval,        \* the last evaluate_rule call: rule, branch, error
    storage_errors    \* evaluate_rule calls that a storage error has ended

VARIABLES
    span_rx,          \* Pipeline.span_rx: "parked", "taken" by start, "dropped"
    tx_alive,         \* a Sender of the input channel exists (Pipeline.span_tx)
    chan,             \* the spans buffered in the input channel, oldest first
    submit_pc,        \* submitter -> None, or Some(span) while send awaits
    next_span,        \* spans handed to submit so far (a span is its number)
    submit_results,   \* span -> "ok" / "err": what its submit call returned
    loop_pc,          \* start: "init", "select", "process", "stopped",
                      \* "aborted"
    cur,              \* the span start has received and not yet pushed
    batch,            \* start's batch buffer
    last_flush        \* None, or Some of the latest insert_batch call: the
                      \* spans handed over and whether it returned Ok

VARIABLES
    enable_redis_streaming,  \* PipelineConfig.enable_redis_streaming
    span_budget,      \* the spans the submitters have to submit
    straddling_span,  \* the span whose preview has a character across byte
                      \* 500, or 0 when no submitted span has one
    redis_channels,   \* Redis channel -> the payloads published on it
    publish_results,  \* span -> what publish_span returned for it
    sub_channel,      \* the channel of the subscription
    sub_stream,       \* messages of the subscription not yet taken by its task
    sub_msg,          \* the payload the task holds at tx.send, or None
    sub_buf,          \* the buffer of the subscription's mpsc channel
    sub_read,         \* the payloads the reader has received, in order
    ext_published     \* payloads other publishers have put on sub_channel

VARIABLES
    pricing,          \* CostCalculator.pricing: its keys in iteration order
    pricing_alt,      \* the same entries in the HashMap of another calculator
    cost_span,        \* None, or Some of the span calculate was called with
    cost_matched,     \* what find_pricing returned in that call
    cost_result,      \* the span after the call
    cost_result_alt   \* the span after the call on the other calculator

VARIABLES
    spans_table,      \* table spans: the set of its rows
    last_insert       \* None, or Some of the latest insert / insert_batch call

VARIABLES
    last_test,        \* None, or Some of the latest test_rule call
    enrich_arg,       \* None, or Some of the span enrich_span was called with
    enrich_result     \* what that call did: the span after it, or a panic

VARIABLES
    pass_pc,          \* AlertEvaluator::start: "tick" at ticker.tick(),
                      \* "rules" inside the for loop of evaluate_all
    pass_snapshot,    \* the rules list_enabled returned to this pass
    pass_rules,       \* the rules of the pass still to be evaluated
    pass_log,         \* the evaluate_rule calls of the pass: rule, result
    pass_result,      \* what the latest evaluate_all returned, or "none"
    task_pc,          \* task -> where its evaluate_rule call is
    task_event,       \* task -> id of the event its call holds, or 0
    task_created,     \* the tasks whose call has created an event
    task_failed,      \* the tasks whose call a storage error has ended
    counts_lock,      \* the task holding failure_counts.write(), or 0
    active_lock       \* the task holding active_alerts.write(), or 0

evalVars == <<alert_rules, alert_events, failure_counts, active_alerts,
              send_log, last_eval, storage_errors>>

pipeVars == <<span_rx, tx_alive, chan, submit_pc, next_span, submit_results,
              loop_pc, cur, batch, last_flush>>

configVars == <<enable_redis_streaming, span_budget, straddling_span,
                sub_channel>>

redisVars == <<redis_channels, publish_results>>

subVars == <<sub_stream, sub_msg, sub_buf, sub_read, ext_published>>

costVars == <<pricing, pricing_alt, cost_span, cost_matched, cost_result,
              cost_result_alt>>

storeVars == <<spans_table, last_insert>>

callVars == <<last_test, enrich_arg, enrich_result>>
passVars == <<pass_pc, pass_snapshot, pass_rules, pass_log, pass_result>>
lockVars == <<task_pc, task_event, task_created, task_failed, counts_lock,
              active_lock>>
taskVars == <<passVars, lockVars>>

\* What the alert evaluator leaves alone
outsideEval == <<pipeVars, configVars, redisVars, subVars, costVars,
                 storeVars, callVars, taskVars>>

\* What the submitters and the steps of start other than the processing of
\* a span leave alone
outsidePipe == <<evalVars, configVars, redisVars, subVars, costVars,
                 storeVars, callVars, taskVars>>

\* What the task and the reader of a subscription leave alone
outsideSub == <<evalVars, pipeVars, configVars, costVars, storeVars,
                callVars, taskVars>>

----------------------------------------------------------------------------
(* Bounds *)

\* breaching evaluations of a rule beyond its consecutive_failures
MaxExtra == 1
\* rows of alert_events
MaxEvents == 2
\* evaluate_rule calls of one behaviour that a storage error ends
MaxStorageErrors == 1
\* rows of alert_rules
MaxRules == 3

----------------------------------------------------------------------------
(* Alert model: models/alert.rs *)

RuleIds == {1, 2}
Values == {2, 5, 10}
\* Option: None is <<>>, Some(x) is <<x>>
None == <<>>
Some(x) == <<x>>
\* Utc::now(): the model keeps of a timestamp only that it is set
UtcNow == "now"

Operators == {"gt", "lt", "eq", "gte", "lte", "ne"}

check_missing_threshold_as_zero(rule, value) ==
    LET threshold == IF rule.threshold = None THEN 0 ELSE rule.threshold[1]
    IN CASE rule.operator = "gt"  -> value > threshold
         [] rule.operator = "lt"  -> value < threshold
         [] rule.operator = "eq"  -> value = threshold
         [] rule.operator = "gte" -> value >= threshold
         [] rule.operator = "lte" -> value <= threshold
         [] rule.operator = "ne"  -> value # threshold

\* AlertRule::check; values and thresholds are whole numbers here, for which
\* |value - threshold| < f64::EPSILON is equality.
check(rule, value) ==
    IF rule.threshold = None THEN FALSE
    ELSE LET threshold == rule.threshold[1]
         IN CASE rule.operator = "gt"  -> value > threshold
              [] rule.operator = "lt"  -> value < threshold
              [] rule.operator = "eq"  -> value = threshold
              [] rule.operator = "gte" -> value >= threshold
              [] rule.operator = "lte" -> value <= threshold
              [] rule.operator = "ne"  -> value # threshold

\* The rules the model stores: rule 1 is an error_rate style rule with
\* hysteresis (consecutive_failures = 3) and two notification channels,
\* rule 2 fires on the first low value and notifies nobody.
InitRule(id) ==
    IF id = 1
    THEN [id |-> 1, operator |-> "gt", threshold |-> Some(5),
          consecutive_failures |-> 3, severity |-> "warning",
          notification_channels |-> <<"slack", "webhook">>, enabled |-> TRUE,
          last_evaluated_at |-> None, last_triggered_at |-> None]
    ELSE [id |-> id, operator |-> "lt", threshold |-> Some(5),
          consecutive_failures |-> 1, severity |-> "critical",
          notification_channels |-> <<>>, enabled |-> TRUE,
          last_evaluated_at |-> None, last_triggered_at |-> None]

----------------------------------------------------------------------------
(* HashMap helpers *)

MapInsert(m, k, v) == [x \in DOMAIN m \cup {k} |-> IF x = k THEN v ELSE m[x]]
MapRemove(m, k) == [x \in DOMAIN m \ {k} |-> m[x]]
EmptyMap == [x \in {} |-> 0]

----------------------------------------------------------------------------
(* Alert repository: alerting/repository.rs *)

\* create_event: INSERT INTO alert_events
create_event(rows, event) == Append(rows, event)

resolve_event_status_only(rows, id, t) ==
    [i \in DOMAIN rows |->
        IF rows[i].id = id
        THEN [rows[i] EXCEPT !.status = "resolved"]
        ELSE rows[i]]

\* resolve_event: UPDATE ... SET status = 'resolved', resolved_at = $2
resolve_event(rows, id, t) ==
    [i \in DOMAIN rows |->
        IF rows[i].id = id
        THEN [rows[i] EXCEPT !.status = "resolved", !.resolved_at = Some(t)]
        ELSE rows[i]]

\* acknowledge_event: UPDATE ... SET status = 'acknowledged'
acknowledge_event(rows, id) ==
    [i \in DOMAIN rows |->
        IF rows[i].id = id
        THEN [rows[i] EXCEPT !.status = "acknowledged"]
        ELSE rows[i]]

\* update_event_notifications: UPDATE ... SET notifications_sent = $2
update_event_notifications(rows, id, records) ==
    [i \in DOMAIN rows |->
        IF rows[i].id = id
        THEN [rows[i] EXCEPT !.notifications_sent = records]
        ELSE rows[i]]

\* update_last_evaluated / update_last_triggered
update_last_evaluated(rules, id, t) ==
    [rules EXCEPT ![id].last_evaluated_at = Some(t)]
update_last_triggered(rules, id, t) ==
    [rules EXCEPT ![id].last_triggered_at = Some(t)]

\* Option::unwrap_or
unwrap_or(opt, default) == IF opt = None THEN default ELSE opt[1]

\* delete_rule: DELETE FROM alert_rules WHERE id = $1
delete_rule(rules, id) == MapRemove(rules, id)

\* Two of the metric names get_metric_value knows, and one it does not know
KnownMetrics == {"error_rate", "latency_p95"}
MetricNames == KnownMetrics \cup {"bogus"}

\* The columns of a rule that the rule requests set and the evaluator
\* model does not read, with the values of create_rule's defaults
RuleSettings ==
    [metric |-> "error_rate", window_minutes |-> 5,
     evaluation_interval_seconds |-> 60]

\* A stored rule with all the columns the rule requests set
StoredRule(id) == InitRule(id) @@ RuleSettings

\* AlertRuleInput: the bodies of the create and update requests
AlertRuleInputs ==
    [metric : {"error_rate", "bogus"},
     threshold : {Some(5)},
     window_minutes : {None, Some(0)},
     evaluation_interval_seconds : {None, Some(0)},
     consecutive_failures : {None, Some(0), Some(2)},
     enabled : {None}]

\* create_rule: the rule it builds from the input (lines 32-54) and inserts
create_rule(rules, id, input) ==
    MapInsert(rules, id,
        [id |-> id, operator |-> "gt", threshold |-> input.threshold,
         metric |-> input.metric,
         window_minutes |-> unwrap_or(input.window_minutes, 5),
         evaluation_interval_seconds |->
             unwrap_or(input.evaluation_interval_seconds, 60),
         consecutive_failures |-> unwrap_or(input.consecutive_failures, 1),
         severity |-> "warning", notification_channels |-> <<>>,
         enabled |-> unwrap_or(input.enabled, TRUE),
         last_evaluated_at |-> None, last_triggered_at |-> None])

\* update_rule: UPDATE alert_rules SET column = COALESCE($n, column) ...
\* WHERE id = $1 (metric and operator are not among the columns)
update_rule(rules, id, input) ==
    IF id \notin DOMAIN rules THEN rules
    ELSE [rules EXCEPT
            ![id].threshold =
                IF input.threshold = None THEN @ ELSE input.threshold,
            ![id].window_minutes = unwrap_or(input.window_minutes, @),
            ![id].evaluation_interval_seconds =
                unwrap_or(input.evaluation_interval_seconds, @),
            ![id].consecutive_failures =
                unwrap_or(input.consecutive_failures, @),
            ![id].enabled = unwrap_or(input.enabled, @)]

----------------------------------------------------------------------------
(* Notification sender: alerting/notifier.rs *)

send_all_until_failure(rule, deliv) ==
    LET sent == {i \in DOMAIN deliv : \A j \in 1..(i - 1) : deliv[j]}
    IN  [i \in 1..Cardinality(sent) |->
            [channel_type |-> rule.notification_channels[i],
             success |-> deliv[i],
             error |-> IF deliv[i] THEN None ELSE Some("error")]]

\* send_all: one result per channel, in order; deliv[i] is whether the
\* delivery on channel i succeeded.
send_all(rule, deliv) ==
    [i \in 1..Len(rule.notification_channels) |->
        [channel_type |-> rule.notification_channels[i],
         success |-> deliv[i],
         error |-> IF deliv[i] THEN None ELSE Some("error")]]

Deliveries(rule) == [1..Len(rule.notification_channels) -> BOOLEAN]

----------------------------------------------------------------------------
(* Alert evaluator: alerting/evaluator.rs *)

\* The storage call of one evaluate_rule call that returns an error, if any.
FailPoints == {"none", "metric", "create_event", "last_triggered",
               "notifications", "resolve_event", "last_evaluated"}

BelowThresholdOffByOne(count, rule) == count <= rule.consecutive_failures

\* handle_breach, line 379: the consecutive failure threshold is not yet hit
BelowThreshold(count, rule) == count < rule.consecutive_failures

AlreadyActiveIgnored(active, id) == FALSE

\* handle_breach, line 385: an alert is already active for the rule
AlreadyActive(active, id) == id \in DOMAIN active

\* handle_breach, lines 391-405
NewEvent(rule, value, t) ==
    [id |-> Len(alert_events) + 1,
     rule_id |-> rule.id,
     triggered_at |-> t,
     resolved_at |-> None,
     status |-> "active",
     severity |-> rule.severity,
     metric_value |-> value,
     threshold_value |-> IF rule.threshold = None THEN 0
                         ELSE rule.threshold[1],
     notifications_sent |-> <<>>]

\* The evaluator's view of the world while one evaluate_rule call runs.
EvalState ==
    [rules |-> alert_rules, events |-> alert_events,
     counts |-> failure_counts, active |-> active_alerts,
     log |-> send_log, result |-> "ok"]

\* handle_breach
handle_breach(st, rule, value, fail, deliv, t) ==
    LET id == rule.id
        count == (IF id \in DOMAIN st.counts THEN st.counts[id] ELSE 0) + 1
        counted == [st EXCEPT !.counts = MapInsert(st.counts, id, count)]
        event == NewEvent(rule, value, t)
        results == send_all(rule, deliv)
        stored == [counted EXCEPT !.events = create_event(st.events, event)]
        triggered == [stored EXCEPT
                        !.rules = update_last_triggered(st.rules, id, t)]
        sent == [triggered EXCEPT
                    !.log = Append(st.log, [event |-> event.id])]
        recorded == [sent EXCEPT !.events =
                        update_event_notifications(sent.events, event.id,
                                                   results)]
    IN  IF BelowThreshold(count, rule) THEN counted
        ELSE IF AlreadyActive(st.active, id) THEN counted
        ELSE IF fail = "create_event" THEN [counted EXCEPT !.result = "err"]
        ELSE IF fail = "last_triggered" THEN [stored EXCEPT !.result = "err"]
        ELSE IF fail = "notifications" THEN [sent EXCEPT !.result = "err"]
        ELSE [recorded EXCEPT !.active = MapInsert(st.active, id, event)]

handle_recovery_keeps_alert(st, rule, fail, t) ==
    [st EXCEPT !.counts = MapRemove(st.counts, rule.id)]

\* handle_recovery
handle_recovery(st, rule, fail, t) ==
    LET id == rule.id
        reset == [st EXCEPT !.counts = MapRemove(st.counts, id)]
        removed == [reset EXCEPT !.active = MapRemove(st.active, id)]
    IN  IF id \in DOMAIN st.active
        THEN IF fail = "resolve_event"
             THEN [removed EXCEPT !.result = "err"]
             ELSE [removed EXCEPT !.events =
                      resolve_event(st.events, st.active[id].id, t)]
        ELSE reset

\* evaluate_rule, lines 103-124, for a metric value
evaluate_value(st, rule, value, fail, deliv, t) ==
    LET handled == IF check(rule, value)
                   THEN handle_breach(st, rule, value, fail, deliv, t)
                   ELSE handle_recovery(st, rule, fail, t)
    IN  IF handled.result = "err" THEN handled
        ELSE IF fail = "last_evaluated" THEN [handled EXCEPT !.result = "err"]
        ELSE [handled EXCEPT
                !.rules = update_last_evaluated(handled.rules, rule.id, t)]

evaluate_rule_no_data_recovers(st, rule, metric, fail, deliv, t) ==
    IF fail = "metric" THEN [st EXCEPT !.result = "err"]
    ELSE IF metric = None THEN handle_recovery(st, rule, "none", t)
    ELSE evaluate_value(st, rule, metric[1], fail, deliv, t)

\* evaluate_rule: metric is what get_metric_value returns, <<>> for no data
\* and <<v>> for a value; fail = "metric" is its error.
evaluate_rule(st, rule, metric, fail, deliv, t) ==
    IF fail = "metric" THEN [st EXCEPT !.result = "err"]
    ELSE IF metric = None THEN st
    ELSE evaluate_value(st, rule, metric[1], fail, deliv, t)

\* The branch evaluate_rule takes
Branch(rule, metric, fail) ==
    IF fail = "metric" THEN "metric_error"
    ELSE IF metric = None THEN "no_data"
    ELSE IF check(rule, metric[1]) THEN "breach" ELSE "recovery"

\* The storage calls evaluate_rule makes on this state and metric when none
\* of them fails: the calls an error can come from.
StorageCalls(st, rule, metric) ==
    {"metric"} \cup
    (IF metric = None THEN {}
     ELSE {"last_evaluated"} \cup
          (IF check(rule, metric[1])
           THEN LET count == (IF rule.id \in DOMAIN st.counts
                              THEN st.counts[rule.id] ELSE 0) + 1
                IN  IF BelowThreshold(count, rule)
                       \/ AlreadyActive(st.active, rule.id)
                    THEN {}
                    ELSE {"create_event", "last_triggered", "notifications"}
           ELSE IF rule.id \in DOMAIN st.active
                THEN {"resolve_event"} ELSE {}))

\* Whether the call gets as far as send_all
ReachesSendAll(st, rule, metric, fail) ==
    /\ "notifications" \in StorageCalls(st, rule, metric)
    /\ fail \notin {"metric", "create_event", "last_triggered"}

\* The inputs of one evaluate_rule call: the metric get_metric_value yields
\* (None: no data), the storage call that fails (if any) and the outcome of
\* each delivery. An input the call never reads is fixed to one value.
Metrics == {None} \cup {Some(v) : v \in Values}

AllDelivered(rule) == [i \in 1..Len(rule.notification_channels) |-> TRUE]

FailInputs(st, rule, metric) ==
    IF metric = None THEN {"none", "metric"}
    ELSE {"none"} \cup (StorageCalls(st, rule, metric) \ {"metric"})

DeliveryInputs(st, rule, metric, fail) ==
    IF ReachesSendAll(st, rule, metric, fail)
    THEN Deliveries(rule) ELSE {AllDelivered(rule)}

\* One evaluate_rule call of the evaluator loop (evaluate_all calls it for
\* every enabled rule).
EvaluateRuleWith(r, metric, fail, deliv) ==
    \E st \in {evaluate_rule(EvalState, alert_rules[r], metric, fail, deliv,
                              UtcNow)} :
        /\ alert_rules[r].enabled
        /\ Len(st.events) <= MaxEvents
        /\ \A x \in DOMAIN st.counts :
              st.counts[x] <= st.rules[x].consecutive_failures + MaxExtra
        /\ alert_rules' = st.rules
        /\ alert_events' = st.events
        /\ failure_counts' = st.counts
        /\ active_alerts' = st.active
        /\ send_log' = st.log
        /\ last_eval' = [rule |-> r,
                         branch |-> Branch(alert_rules[r], metric, fail),
                         error |-> IF st.result = "ok" THEN "none" ELSE fail]
        /\ storage_errors' = storage_errors + (IF fail = "none" THEN 0 ELSE 1)
        /\ storage_errors' <= MaxStorageErrors
        /\ UNCHANGED outsideEval

EvaluateRule ==
    \E r \in RuleIds : \E metric \in Metrics :
    \E fail \in FailInputs(EvalState, alert_rules[r], metric) :
    \E deliv \in DeliveryInputs(EvalState, alert_rules[r], metric, fail) :
        EvaluateRuleWith(r, metric, fail, deliv)

\* The failure count of a rule; no entry is 0
Count(counts, r) == IF r \in DOMAIN counts THEN counts[r] ELSE 0

\* What an evaluator pass leaves alone
outsidePass == <<pipeVars, configVars, redisVars, subVars, costVars,
                 storeVars, callVars, lockVars>>

\* list_enabled: the enabled rules, ORDER BY created_at DESC; the rules
\* are created in the order of their ids
RECURSIVE list_enabled_from(_, _)
list_enabled_from(rules, id) ==
    IF id = 0 THEN <<>>
    ELSE (IF id \in DOMAIN rules /\ rules[id].enabled
          THEN <<rules[id]>> ELSE <<>>)
         \o list_enabled_from(rules, id - 1)

list_enabled(rules) == list_enabled_from(rules, MaxRules)

rules_after_until_error(rules, result) ==
    IF result = "err" THEN <<>> ELSE Tail(rules)

\* evaluate_all, lines 77-81: the error of evaluate_rule is logged and the
\* for loop goes on with the next rule
rules_after(rules, result) == Tail(rules)

\* start, lines 63-69, and evaluate_all, lines 72-75: the tick, then
\* list_enabled; its error is returned by evaluate_all and logged by start
EvaluateAll ==
    /\ pass_pc = "tick"
    /\ \E failed \in BOOLEAN :
          LET rules == IF failed THEN <<>> ELSE list_enabled(alert_rules)
          IN  /\ pass_snapshot' = [i \in DOMAIN rules |-> rules[i].id]
              /\ pass_rules' = rules
              /\ pass_log' = <<>>
              /\ pass_pc' = IF rules = <<>> THEN "tick" ELSE "rules"
              /\ pass_result' = IF failed THEN "err"
                                ELSE IF rules = <<>> THEN "ok" ELSE "none"
    /\ UNCHANGED evalVars
    /\ UNCHANGED outsidePass

\* evaluate_all, lines 77-84: one iteration of the for loop, on the rule as
\* list_enabled returned it; after the last rule evaluate_all returns Ok
EvaluateAllRule ==
    /\ pass_pc = "rules"
    /\ LET rule == Head(pass_rules)
       IN  \E metric \in Metrics :
           \E fail \in FailInputs(EvalState, rule, metric) :
           \E deliv \in DeliveryInputs(EvalState, rule, metric, fail) :
           \E st \in {evaluate_rule(EvalState, rule, metric, fail, deliv,
                                     UtcNow)} :
              LET rest == rules_after(pass_rules, st.result)
              IN  /\ Len(st.events) <= MaxEvents
                  /\ Count(st.counts, rule.id)
                        <= rule.consecutive_failures + MaxExtra
                  /\ alert_rules' = st.rules
                  /\ alert_events' = st.events
                  /\ failure_counts' = st.counts
                  /\ active_alerts' = st.active
                  /\ send_log' = st.log
                  /\ last_eval' =
                        [rule |-> rule.id,
                         branch |-> Branch(rule, metric, fail),
                         error |-> IF st.result = "ok" THEN "none"
                                   ELSE fail]
                  /\ storage_errors' =
                        storage_errors + (IF fail = "none" THEN 0 ELSE 1)
                  /\ storage_errors' <= MaxStorageErrors
                  /\ pass_rules' = rest
                  /\ pass_log' = Append(pass_log, [rule |-> rule.id,
                                                   result |-> st.result])
                  /\ pass_pc' = IF rest = <<>> THEN "tick" ELSE "rules"
                  /\ pass_result' = IF rest = <<>> THEN "ok" ELSE "none"
                  /\ UNCHANGED pass_snapshot
    /\ UNCHANGED outsidePass

\* Two tasks call evaluate_rule on the shared evaluator at the same time
Tasks == {1, 2}

\* The rule the concurrent calls evaluate
SharedRule == 2

\* What a step of a concurrent call leaves alone
outsideTask == <<pipeVars, configVars, redisVars, subVars, costVars,
                 storeVars, callVars, passVars>>

\* handle_breach, line 367: the guard counts lives until the function
\* returns, so the write lock of failure_counts is held across the awaits
counts_guard(p) == p

\* The locks after task p has returned from its handler
Unlocked(lock, p) == IF lock = p THEN 0 ELSE lock

\* Where handle_breach or handle_recovery returns to: evaluate_rule goes on
\* to update_last_evaluated after Ok and returns at once after an error
Returned(pc, p, ok) ==
    [pc EXCEPT ![p] = IF ok THEN "last_evaluated" ELSE "done"]

\* evaluate_rule, lines 103-119: the call has its metric value and enters
\* handle_breach or handle_recovery
TaskStart(p) ==
    /\ task_pc[p] = "idle"
    /\ \E breached \in BOOLEAN :
          task_pc' = [task_pc EXCEPT
                        ![p] = IF breached THEN "breach" ELSE "recovery"]
    /\ UNCHANGED <<task_event, task_created, task_failed, counts_lock,
                   active_lock>>
    /\ UNCHANGED <<evalVars, outsideTask>>

\* handle_breach, lines 367-382: failure_counts.write().await, the
\* increment and the test of consecutive_failures
BreachCount(p) ==
    /\ task_pc[p] = "breach"
    /\ counts_lock = 0
    /\ LET count == Count(failure_counts, SharedRule) + 1
       IN  /\ failure_counts' = MapInsert(failure_counts, SharedRule, count)
           /\ IF BelowThreshold(count, alert_rules[SharedRule])
              THEN /\ task_pc' = Returned(task_pc, p, TRUE)
                   /\ counts_lock' = 0
              ELSE /\ task_pc' = [task_pc EXCEPT ![p] = "check_active"]
                   /\ counts_lock' = counts_guard(p)
    /\ UNCHANGED <<task_event, task_created, task_failed, active_lock>>
    /\ UNCHANGED <<alert_rules, alert_events, active_alerts, send_log,
                   last_eval, storage_errors>>
    /\ UNCHANGED outsideTask

\* handle_breach, lines 384-389: active_alerts.read().await, the test and
\* the drop of the read guard
BreachCheckActive(p) ==
    /\ task_pc[p] = "check_active"
    /\ active_lock = 0
    /\ IF AlreadyActive(active_alerts, SharedRule)
       THEN /\ task_pc' = Returned(task_pc, p, TRUE)
            /\ counts_lock' = Unlocked(counts_lock, p)
       ELSE /\ task_pc' = [task_pc EXCEPT ![p] = "create"]
            /\ UNCHANGED counts_lock
    /\ UNCHANGED <<task_event, task_created, task_failed, active_lock>>
    /\ UNCHANGED evalVars
    /\ UNCHANGED outsideTask

\* handle_breach, lines 391-425: create_event, update_last_triggered,
\* send_all and update_event_notifications; fail is the call that returns
\* an error, which ends handle_breach
BreachCreate(p) ==
    /\ task_pc[p] = "create"
    /\ \E fail \in {"none", "create_event", "last_triggered",
                     "notifications"} :
          LET rule == alert_rules[SharedRule]
              event == NewEvent(rule, 2, UtcNow)
              stored == create_event(alert_events, event)
              results == send_all(rule, AllDelivered(rule))
          IN  /\ alert_events' =
                    IF fail = "create_event" THEN alert_events
                    ELSE IF fail = "none"
                    THEN update_event_notifications(stored, event.id,
                                                    results)
                    ELSE stored
              /\ alert_rules' =
                    IF fail \in {"create_event", "last_triggered"}
                    THEN alert_rules
                    ELSE update_last_triggered(alert_rules, SharedRule,
                                               UtcNow)
              /\ send_log' =
                    IF fail \in {"create_event", "last_triggered"}
                    THEN send_log
                    ELSE Append(send_log, [event |-> event.id])
              /\ task_created' = IF fail = "create_event" THEN task_created
                                 ELSE task_created \cup {p}
              /\ task_event' = [task_event EXCEPT ![p] = event.id]
              /\ IF fail = "none"
                 THEN /\ task_pc' = [task_pc EXCEPT ![p] = "insert_active"]
                      /\ UNCHANGED <<task_failed, counts_lock>>
                 ELSE /\ task_pc' = Returned(task_pc, p, FALSE)
                      /\ task_failed' = task_failed \cup {p}
                      /\ counts_lock' = Unlocked(counts_lock, p)
    /\ UNCHANGED active_lock
    /\ UNCHANGED <<failure_counts, active_alerts, last_eval,
                   storage_errors>>
    /\ UNCHANGED outsideTask

\* handle_breach, lines 427-431: active_alerts.write().await, the insert
\* and the return, which drops both guards
BreachInsertActive(p) ==
    /\ task_pc[p] = "insert_active"
    /\ active_lock = 0
    /\ active_alerts' =
          MapInsert(active_alerts, SharedRule, alert_events[task_event[p]])
    /\ task_pc' = Returned(task_pc, p, TRUE)
    /\ counts_lock' = Unlocked(counts_lock, p)
    /\ UNCHANGED <<task_event, task_created, task_failed, active_lock>>
    /\ UNCHANGED <<alert_rules, alert_events, failure_counts, send_log,
                   last_eval, storage_errors>>
    /\ UNCHANGED outsideTask

\* handle_recovery, lines 437-438: failure_counts.write().await and the
\* removal of the count
RecoveryCount(p) ==
    /\ task_pc[p] = "recovery"
    /\ counts_lock = 0
    /\ counts_lock' = p
    /\ failure_counts' = MapRemove(failure_counts, SharedRule)
    /\ task_pc' = [task_pc EXCEPT ![p] = "remove_active"]
    /\ UNCHANGED <<task_event, task_created, task_failed, active_lock>>
    /\ UNCHANGED <<alert_rules, alert_events, active_alerts, send_log,
                   last_eval, storage_errors>>
    /\ UNCHANGED outsideTask

\* handle_recovery, lines 441-443: active_alerts.write().await and the
\* removal of the entry; without an entry the function returns and drops
\* both guards
RecoveryRemoveActive(p) ==
    /\ task_pc[p] = "remove_active"
    /\ active_lock = 0
    /\ active_alerts' = MapRemove(active_alerts, SharedRule)
    /\ IF SharedRule \in DOMAIN active_alerts
       THEN /\ task_pc' = [task_pc EXCEPT ![p] = "resolve"]
            /\ task_event' =
                  [task_event EXCEPT ![p] = active_alerts[SharedRule].id]
            /\ active_lock' = p
            /\ UNCHANGED counts_lock
       ELSE /\ task_pc' = Returned(task_pc, p, TRUE)
            /\ counts_lock' = Unlocked(counts_lock, p)
            /\ UNCHANGED <<active_lock, task_event>>
    /\ UNCHANGED <<task_created, task_failed>>
    /\ UNCHANGED <<alert_rules, alert_events, failure_counts, send_log,
                   last_eval, storage_errors>>
    /\ UNCHANGED outsideTask

\* handle_recovery, lines 444-455: resolve_event under both guards and the
\* return, which drops them
RecoveryResolve(p) ==
    /\ task_pc[p] = "resolve"
    /\ \E failed \in BOOLEAN :
          /\ alert_events' =
                IF failed THEN alert_events
                ELSE resolve_event(alert_events, task_event[p], UtcNow)
          /\ task_failed' =
                IF failed THEN task_failed \cup {p} ELSE task_failed
          /\ task_pc' = Returned(task_pc, p, ~failed)
    /\ counts_lock' = Unlocked(counts_lock, p)
    /\ active_lock' = Unlocked(active_lock, p)
    /\ UNCHANGED <<task_event, task_created>>
    /\ UNCHANGED <<alert_rules, failure_counts, active_alerts, send_log,
                   last_eval, storage_errors>>
    /\ UNCHANGED outsideTask

\* evaluate_rule, lines 121-124: update_last_evaluated, with no lock held
TaskLastEvaluated(p) ==
    /\ task_pc[p] = "last_evaluated"
    /\ \E failed \in BOOLEAN :
          /\ alert_rules' =
                IF failed THEN alert_rules
                ELSE update_last_evaluated(alert_rules, SharedRule, UtcNow)
          /\ task_failed' =
                IF failed THEN task_failed \cup {p} ELSE task_failed
    /\ task_pc' = [task_pc EXCEPT ![p] = "done"]
    /\ UNCHANGED <<task_event, task_created, counts_lock, active_lock>>
    /\ UNCHANGED <<alert_events, failure_counts, active_alerts, send_log,
                   last_eval, storage_errors>>
    /\ UNCHANGED outsideTask

\* A step of one of the two concurrent evaluate_rule calls
TaskStep(p) ==
    \/ TaskStart(p)
    \/ BreachCount(p)
    \/ BreachCheckActive(p)
    \/ BreachCreate(p)
    \/ BreachInsertActive(p)
    \/ RecoveryCount(p)
    \/ RecoveryRemoveActive(p)
    \/ RecoveryResolve(p)
    \/ TaskLastEvaluated(p)

test_rule_after_hysteresis(rule, metric, fail) ==
    IF fail THEN [ok |-> FALSE, event |-> None]
    ELSE IF metric = None \/ ~check(rule, metric[1])
    THEN [ok |-> TRUE, event |-> None]
    ELSE IF (IF rule.id \in DOMAIN failure_counts
             THEN failure_counts[rule.id] ELSE 0) + 1
               < rule.consecutive_failures
    THEN [ok |-> TRUE, event |-> None]
    ELSE [ok |-> TRUE, event |-> Some(NewEvent(rule, metric[1], UtcNow))]

\* test_rule: what it returns; fail is the error of get_metric_value. The
\* event has a new id, as the one handle_breach builds.
test_rule(rule, metric, fail) ==
    IF fail THEN [ok |-> FALSE, event |-> None]
    ELSE IF metric = None THEN [ok |-> TRUE, event |-> None]
    ELSE IF ~check(rule, metric[1]) THEN [ok |-> TRUE, event |-> None]
    ELSE [ok |-> TRUE, event |-> Some(NewEvent(rule, metric[1], UtcNow))]

\* test_alert_rule (POST on a rule id): test_rule on the stored rule
TestAlertRule ==
    /\ \E r \in RuleIds : \E metric \in Metrics : \E fail \in BOOLEAN :
          last_test' = Some([rule |-> r, metric |-> metric,
                             result |-> test_rule(alert_rules[r], metric,
                                                  fail)])
    /\ UNCHANGED evalVars
    /\ UNCHANGED <<enrich_arg, enrich_result>>
    /\ UNCHANGED <<pipeVars, configVars, redisVars, subVars, costVars,
                   storeVars, taskVars>>

\* acknowledge_alert (POST on an event id): acknowledge_event on the id the
\* path names, which may be the id of no event; failed is the error of the
\* statement.
AcknowledgeAlert ==
    /\ \E id \in 1..MaxEvents : \E failed \in BOOLEAN :
          alert_events' = IF failed THEN alert_events
                          ELSE acknowledge_event(alert_events, id)
    /\ UNCHANGED <<alert_rules, failure_counts, active_alerts, send_log,
                   last_eval, storage_errors>>
    /\ UNCHANGED outsideEval

\* create_alert_rule (POST): create_rule with the body, under a new id;
\* failed is the error of the statement
CreateAlertRule ==
    /\ Cardinality(DOMAIN alert_rules) < MaxRules
    /\ \E input \in AlertRuleInputs : \E failed \in BOOLEAN :
          alert_rules' =
             IF failed THEN alert_rules
             ELSE create_rule(alert_rules,
                              Cardinality(DOMAIN alert_rules) + 1, input)
    /\ UNCHANGED <<alert_events, failure_counts, active_alerts, send_log,
                   last_eval, storage_errors>>
    /\ UNCHANGED outsideEval

\* update_alert_rule (PUT on a rule id): update_rule with the body on the
\* id the path names, which may be the id of no rule
UpdateAlertRule ==
    /\ \E id \in 1..MaxRules : \E input \in AlertRuleInputs :
       \E failed \in BOOLEAN :
          alert_rules' = IF failed THEN alert_rules
                         ELSE update_rule(alert_rules, id, input)
    /\ UNCHANGED <<alert_events, failure_counts, active_alerts, send_log,
                   last_eval, storage_errors>>
    /\ UNCHANGED outsideEval

\* An update request that only disables the rule
DisableInput ==
    [metric |-> "error_rate", threshold |-> None, window_minutes |-> None,
     evaluation_interval_seconds |-> None, consecutive_failures |-> None,
     enabled |-> Some(FALSE)]

\* update_alert_rule (PUT on a rule id) with enabled = false
DisableAlertRule ==
    /\ \E id \in RuleIds :
          /\ id \in DOMAIN alert_rules
          /\ alert_rules[id].enabled
          /\ alert_rules' = update_rule(alert_rules, id, DisableInput)
    /\ UNCHANGED <<alert_events, failure_counts, active_alerts, send_log,
                   last_eval, storage_errors>>
    /\ UNCHANGED outsideEval

\* delete_alert_rule (DELETE on a rule id): delete_rule, which touches the
\* table alert_rules only
DeleteAlertRule ==
    /\ \E id \in RuleIds :
          /\ id \in DOMAIN alert_rules
          /\ alert_rules' = delete_rule(alert_rules, id)
    /\ UNCHANGED <<alert_events, failure_counts, active_alerts, send_log,
                   last_eval, storage_errors>>
    /\ UNCHANGED outsideEval

----------------------------------------------------------------------------

EvalInit ==
    /\ alert_rules = [id \in RuleIds |-> InitRule(id)]
    /\ alert_events = <<>>
    /\ failure_counts = EmptyMap
    /\ active_alerts = EmptyMap
    /\ send_log = <<>>
    /\ storage_errors = 0
    /\ last_eval = [rule |-> 1, branch |-> "none", error |-> "none"]

----------------------------------------------------------------------------
(* Spans: models/span.rs. A span is the number of its submission; its      *)
(* fields are a function of the number.                                     *)

TraceIds == {"T1", "T2"}

\* Span.trace_id
trace_id(span) == IF span % 2 = 1 THEN "T1" ELSE "T2"

\* Span.model_name: set on spans 1, 4, 5, 8, ...
model_name(span) == IF span % 4 \in {0, 1} THEN Some("gpt-4o") ELSE None

is_llm_call_always(span) == TRUE

\* Span::is_llm_call
is_llm_call(span) == model_name(span) # None

----------------------------------------------------------------------------
(* Redis streaming: db/redis.rs *)

ChannelSpans == <<"agenttrace:spans">>
ChannelLlm == <<"agenttrace:llm">>
TraceChannel(t) == <<"agenttrace:trace", t>>

Channels == {ChannelSpans, ChannelLlm} \cup {TraceChannel(t) : t \in TraceIds}

\* conn.publish(channel, payload)
publish(channels, channel, payload) ==
    [channels EXCEPT ![channel] = Append(@, payload)]

\* The points at which publish_span can fail for a span: getting the
\* connection and each publish it makes
PublishFailures(span) ==
    {"none", "conn", "spans", "trace"}
        \cup (IF is_llm_call(span) THEN {"llm"} ELSE {})

\* publish_span: each step ends the call with its error (the ? operator).
\* The result is "ok" or the step whose error is returned.
publish_span(channels, span, fail) ==
    LET global == publish(channels, ChannelSpans, span)
        trace == publish(global, TraceChannel(trace_id(span)), span)
        llm == publish(trace, ChannelLlm, span)
    IN  IF fail = "conn" THEN [channels |-> channels, result |-> "conn"]
        ELSE IF fail = "spans" THEN [channels |-> channels, result |-> "spans"]
        ELSE IF fail = "trace" THEN [channels |-> global, result |-> "trace"]
        ELSE IF ~is_llm_call(span) THEN [channels |-> trace, result |-> "ok"]
        ELSE IF fail = "llm" THEN [channels |-> trace, result |-> "llm"]
        ELSE [channels |-> llm, result |-> "ok"]

\* What Redis delivers to a subscription of channel c when the channels go
\* from before to after
Delivered(before, after, c) ==
    SubSeq(after[c], Len(before[c]) + 1, Len(after[c]))

\* RedisPool::subscribe, line 59: mpsc::channel::<String>(100)
SubCapacity == 100

\* payloads other publishers put on the channel beyond that capacity
ExtraPayloads == 2
\* payloads the reader of the subscription takes
MaxReads == 2

MaxExtPayloads == SubCapacity + ExtraPayloads

StreamHeadIsLast(q) == q[Len(q)]

\* subscribe, line 83: stream.next() yields the oldest message
StreamHead(q) == Head(q)

\* subscribe, lines 83-85: the task takes the next message of the channel
SubTake ==
    /\ sub_msg = None
    /\ sub_stream # <<>>
    /\ sub_msg' = Some(StreamHead(sub_stream))
    /\ sub_stream' = Tail(sub_stream)
    /\ UNCHANGED <<sub_buf, sub_read, ext_published>>
    /\ UNCHANGED <<outsideSub, redisVars>>

\* subscribe, line 86: tx.send(payload).await completes when the buffer has
\* a free slot
SubSend ==
    /\ sub_msg # None
    /\ Len(sub_buf) < SubCapacity
    /\ sub_buf' = Append(sub_buf, sub_msg[1])
    /\ sub_msg' = None
    /\ UNCHANGED <<sub_stream, sub_read, ext_published>>
    /\ UNCHANGED <<outsideSub, redisVars>>

\* The holder of the Receiver that subscribe returned takes a payload
SubRead ==
    /\ sub_buf # <<>>
    /\ Len(sub_read) < MaxReads
    /\ sub_read' = Append(sub_read, Head(sub_buf))
    /\ sub_buf' = Tail(sub_buf)
    /\ UNCHANGED <<sub_stream, sub_msg, ext_published>>
    /\ UNCHANGED <<outsideSub, redisVars>>

\* Another publisher puts a payload on the subscribed channel
ExternalPublish ==
    /\ ext_published < MaxExtPayloads
    /\ ext_published' = ext_published + 1
    /\ redis_channels' = publish(redis_channels, sub_channel, ext_published')
    /\ sub_stream' = Append(sub_stream, ext_published')
    /\ UNCHANGED <<sub_msg, sub_buf, sub_read, publish_results>>
    /\ UNCHANGED outsideSub

----------------------------------------------------------------------------
(* Enrichment: enrich_span of collector/pipeline.rs and calculate_duration *)
(* of models/span.rs. A String is the sequence of its runs, [ch, n] being  *)
(* the character ch n times; no run is empty and neighbours differ in ch.  *)
(* A time is a number of microseconds.                                     *)

\* enrich_span, lines 187 and 194: the length a preview is cut at
PreviewLimit == 500

\* The bytes of a character in UTF-8
len_utf8(ch) ==
    CASE ch \in {"a", "."} -> 1
      [] ch = "U+00E9" -> 2
      [] ch = "U+20AC" -> 3

\* String::len: the bytes of a string
RECURSIVE len(_)
len(str) ==
    IF str = <<>> THEN 0
    ELSE Head(str).n * len_utf8(Head(str).ch) + len(Tail(str))

\* str::is_char_boundary
RECURSIVE is_char_boundary(_, _)
is_char_boundary(str, index) ==
    IF index = 0 THEN TRUE
    ELSE IF str = <<>> THEN FALSE
    ELSE LET width == len_utf8(Head(str).ch)
             bytes == Head(str).n * width
         IN  IF index >= bytes
             THEN is_char_boundary(Tail(str), index - bytes)
             ELSE index % width = 0

\* String::truncate on a char boundary within the string: the characters
\* of its first new_len bytes
RECURSIVE truncate(_, _)
truncate(str, new_len) ==
    IF new_len = 0 \/ str = <<>> THEN <<>>
    ELSE LET width == len_utf8(Head(str).ch)
             bytes == Head(str).n * width
         IN  IF new_len >= bytes
             THEN <<Head(str)>> \o truncate(Tail(str), new_len - bytes)
             ELSE <<[ch |-> Head(str).ch, n |-> new_len \div width]>>

\* String::push_str
push_str(str, more) ==
    IF str = <<>> \/ more = <<>> THEN str \o more
    ELSE IF str[Len(str)].ch = Head(more).ch
    THEN SubSeq(str, 1, Len(str) - 1)
           \o <<[ch |-> Head(more).ch, n |-> str[Len(str)].n + Head(more).n]>>
           \o Tail(more)
    ELSE str \o more

Ellipsis == <<[ch |-> ".", n |-> 3]>>

\* enrich_span, lines 186-191 and 193-198, on one preview: the preview
\* after it, or the panic of truncate off a char boundary
truncate_preview_always_ellipsis(preview) ==
    IF preview = None THEN [panicked |-> FALSE, preview |-> None]
    ELSE IF len(preview[1]) > PreviewLimit
    THEN IF is_char_boundary(preview[1], PreviewLimit)
         THEN [panicked |-> FALSE,
               preview |-> Some(push_str(truncate(preview[1], PreviewLimit),
                                         Ellipsis))]
         ELSE [panicked |-> TRUE, preview |-> None]
    ELSE [panicked |-> FALSE, preview |-> Some(push_str(preview[1], Ellipsis))]

truncate_preview(preview) ==
    IF preview = None THEN [panicked |-> FALSE, preview |-> None]
    ELSE IF len(preview[1]) > PreviewLimit
    THEN IF is_char_boundary(preview[1], PreviewLimit)
         THEN [panicked |-> FALSE,
               preview |-> Some(push_str(truncate(preview[1], PreviewLimit),
                                         Ellipsis))]
         ELSE [panicked |-> TRUE, preview |-> None]
    ELSE [panicked |-> FALSE, preview |-> preview]

\* TimeDelta::num_milliseconds: the whole milliseconds, towards zero
num_milliseconds(micros) ==
    IF micros >= 0 THEN micros \div 1000 ELSE -((-micros) \div 1000)

calculate_duration_if_unset(span) ==
    IF span.ended_at = None \/ span.duration_ms # None THEN span
    ELSE [span EXCEPT !.duration_ms =
            Some(num_milliseconds(span.ended_at[1] - span.started_at))]

\* Span::calculate_duration
calculate_duration(span) ==
    IF span.ended_at = None THEN span
    ELSE [span EXCEPT !.duration_ms =
            Some(num_milliseconds(span.ended_at[1] - span.started_at))]

\* enrich_span, lines 182-184
default_service_name(span) ==
    IF span.service_name = ""
    THEN [span EXCEPT !.service_name = "unknown"] ELSE span

\* enrich_span: the span after it, or its panic
enrich_span(span) ==
    LET named == default_service_name(calculate_duration(span))
        prompt == truncate_preview(named.prompt_preview)
        completion == truncate_preview(named.completion_preview)
    IN  IF prompt.panicked \/ completion.panicked
        THEN [panicked |-> TRUE, span |-> None]
        ELSE [panicked |-> FALSE,
              span |-> [named EXCEPT
                          !.prompt_preview = prompt.preview,
                          !.completion_preview = completion.preview]]

Run(ch, n) == [ch |-> ch, n |-> n]

\* The previews of the spans enrich_span is called with: short, long,
\* ASCII, of two-byte characters, and with a two- and a three-byte
\* character across byte 500
Previews ==
    {<<Run("a", 10)>>, <<Run("a", 500)>>, <<Run("a", 501)>>,
     <<Run("a", 1000)>>, <<Run("U+00E9", 300)>>,
     <<Run("U+00E9", 1), Run("a", 499)>>,
     <<Run("a", 499), Run("U+00E9", 1), Run("a", 10)>>,
     <<Run("a", 498), Run("U+20AC", 1), Run("a", 5)>>}

\* The spans enrich_span is called with
EnrichSpans ==
    [started_at : {0, 1500},
     ended_at : {None, Some(0), Some(1500), Some(2499), Some(1001500)},
     duration_ms : {None, Some(7)},
     service_name : {"", "svc"},
     prompt_preview : {None} \cup {Some(p) : p \in Previews},
     completion_preview :
         {None, Some(<<Run("a", 501)>>),
          Some(<<Run("a", 499), Run("U+00E9", 1)>>)}]

\* enrich_span is called with a span (one call in a behaviour: the call
\* keeps no state)
Enrich ==
    /\ enrich_arg = None
    /\ \E span \in EnrichSpans :
          /\ enrich_arg' = Some(span)
          /\ enrich_result' = enrich_span(span)
    /\ UNCHANGED last_test
    /\ UNCHANGED <<evalVars, pipeVars, configVars, redisVars, subVars,
                   costVars, storeVars, taskVars>>

----------------------------------------------------------------------------
(* Ingestion pipeline: collector/pipeline.rs *)

\* PipelineConfig.batch_size
BatchSize == 2
\* spans submitted beyond what the channel and the batch can hold
ExtraSpans == 1
\* Pipeline::new: mpsc::channel(config.batch_size * 10)
CapacityFactor == 10
Capacity == BatchSize * CapacityFactor

MaxSpans == Capacity + BatchSize + ExtraSpans

Submitters == {1, 2}

SeqToSet(q) == {q[i] : i \in DOMAIN q}

HasRoomInclusive(q) == Len(q) <= Capacity

\* Sender::send: a permit is free
HasRoom(q) == Len(q) < Capacity

SubmitResultIgnoringClose(rx) == "ok"

\* submit: Ok, or Error::Channel when the receiver is gone
SubmitResult(rx) == IF rx = "dropped" THEN "err" ELSE "ok"

\* submit: span_tx.send(span).await returns at once when the receiver is
\* gone or a slot is free, and waits otherwise.
SubmitCall(p) ==
    /\ tx_alive
    /\ submit_pc[p] = None
    /\ next_span < span_budget
    /\ next_span' = next_span + 1
    /\ IF span_rx = "dropped" \/ HasRoom(chan)
       THEN /\ submit_results' = MapInsert(submit_results, next_span',
                                           SubmitResult(span_rx))
            /\ chan' = IF span_rx = "dropped" THEN chan
                       ELSE Append(chan, next_span')
            /\ UNCHANGED submit_pc
       ELSE /\ submit_pc' = [submit_pc EXCEPT ![p] = Some(next_span')]
            /\ UNCHANGED <<submit_results, chan>>
    /\ UNCHANGED <<span_rx, tx_alive, loop_pc, cur, batch, last_flush>>
    /\ UNCHANGED outsidePipe

\* submit: the waiting send completes
SubmitResume(p) ==
    /\ submit_pc[p] # None
    /\ span_rx = "dropped" \/ HasRoom(chan)
    /\ submit_results' = MapInsert(submit_results, submit_pc[p][1],
                                   SubmitResult(span_rx))
    /\ chan' = IF span_rx = "dropped" THEN chan
               ELSE Append(chan, submit_pc[p][1])
    /\ submit_pc' = [submit_pc EXCEPT ![p] = None]
    /\ UNCHANGED <<span_rx, tx_alive, next_span, loop_pc, cur, batch,
                   last_flush>>
    /\ UNCHANGED outsidePipe

\* Pipeline::start, lines 92-118: take the receiver; a second call returns
StartLoop ==
    /\ span_rx = "parked"
    /\ span_rx' = "taken"
    /\ loop_pc' = "select"
    /\ UNCHANGED <<tx_alive, chan, submit_pc, next_span, submit_results, cur,
                   batch, last_flush>>
    /\ UNCHANGED outsidePipe

BatchAfterFlushNotCleared(b, ok) == b

BatchAfterFlushKeepsFailed(b, ok) == IF ok THEN <<>> ELSE b

\* flush_batch, line 221: batch.clear() after either outcome
BatchAfterFlush(b, ok) == <<>>

\* flush_batch on a non-empty batch; ok is whether insert_batch returns Ok
flush_batch(b, ok) ==
    /\ batch' = BatchAfterFlush(b, ok)
    /\ last_flush' = Some([spans |-> b, ok |-> ok])

BatchFullOffByOne(b) == Len(b) > BatchSize

\* start, line 142
BatchFull(b) == Len(b) >= BatchSize

\* select!, lines 121-163: a branch is disabled once its future completes
\* with a value its pattern rejects. recv() yields None only when the channel
\* is closed and empty; the tick always matches.
RecvDisabled == ~tx_alive /\ chan = <<>>
TickDisabled == FALSE

\* start, line 123: recv() yields a span
RecvArm ==
    /\ cur' = Some(Head(chan))
    /\ chan' = Tail(chan)
    /\ loop_pc' = "process"
    /\ UNCHANGED <<span_rx, batch, last_flush>>

TickArmWhenFull ==
    /\ IF BatchFull(batch)
       THEN \E ok \in BOOLEAN : flush_batch(batch, ok)
       ELSE UNCHANGED <<batch, last_flush>>
    /\ UNCHANGED <<span_rx, chan, loop_pc, cur>>

\* start, lines 148-152: the flush tick
TickArm ==
    /\ IF batch # <<>>
       THEN \E ok \in BOOLEAN : flush_batch(batch, ok)
       ELSE UNCHANGED <<batch, last_flush>>
    /\ UNCHANGED <<span_rx, chan, loop_pc, cur>>

\* start, lines 155-162: the else arm flushes what is left and breaks
ElseArm ==
    /\ IF batch # <<>>
       THEN \E ok \in BOOLEAN : flush_batch(batch, ok)
       ELSE UNCHANGED <<batch, last_flush>>
    /\ loop_pc' = "stopped"
    /\ span_rx' = "dropped"
    /\ UNCHANGED <<chan, cur>>

\* The arms select! can run: the else arm when every branch is disabled,
\* otherwise the arm of a branch that has completed.
SelectArms ==
    IF RecvDisabled /\ TickDisabled THEN {"else"}
    ELSE (IF chan # <<>> THEN {"recv"} ELSE {})
         \cup (IF TickDisabled THEN {} ELSE {"tick"})

\* start, lines 120-164: one pass through select!
Select ==
    /\ loop_pc = "select"
    /\ \E arm \in SelectArms :
          CASE arm = "recv" -> RecvArm
            [] arm = "tick" -> TickArm
            [] arm = "else" -> ElseArm
    /\ UNCHANGED <<tx_alive, submit_pc, next_span, submit_results>>
    /\ UNCHANGED outsidePipe

push_only_published(b, span, published) ==
    IF published = "ok" THEN Append(b, span) ELSE b

\* start, lines 132-139: the publish error is only logged; batch.push(span)
push(b, span, published) == Append(b, span)

\* The previews of a submitted span: those of the straddling span have a
\* character across byte 500, the others are short
previews_of(span) ==
    IF span = straddling_span
    THEN [prompt_preview |->
              Some(<<Run("a", 499), Run("U+00E9", 1), Run("a", 10)>>),
          completion_preview |-> None]
    ELSE [prompt_preview |-> Some(<<Run("a", 10)>>),
          completion_preview |-> None]

\* start, line 125: whether enrich_span panics on the span
enrich_panics(span) ==
    \/ truncate_preview(previews_of(span).prompt_preview).panicked
    \/ truncate_preview(previews_of(span).completion_preview).panicked

\* start, lines 124-144: enrich, cost, publish, push, flush when full
ProcessSpan ==
    /\ cur' = None
    /\ loop_pc' = "select"
    /\ \E fail \in PublishFailures(cur[1]) :
          LET pub == IF enable_redis_streaming
                     THEN publish_span(redis_channels, cur[1], fail)
                     ELSE [channels |-> redis_channels, result |-> "ok"]
              pushed == push(batch, cur[1], pub.result)
          IN  /\ IF enable_redis_streaming
                 THEN /\ redis_channels' = pub.channels
                      /\ publish_results' =
                            MapInsert(publish_results, cur[1], pub.result)
                      /\ sub_stream' =
                            sub_stream \o Delivered(redis_channels,
                                                    pub.channels, sub_channel)
                 ELSE /\ fail = "none"
                      /\ UNCHANGED <<redis_channels, publish_results,
                                     sub_stream>>
              /\ IF BatchFull(pushed)
                 THEN \E ok \in BOOLEAN : flush_batch(pushed, ok)
                 ELSE /\ batch' = pushed
                      /\ UNCHANGED <<last_flush>>
    /\ UNCHANGED <<span_rx, chan>>

\* start, line 125: enrich_span panics and the task of start ends; the
\* receiver, the buffered spans and the batch are dropped
ProcessPanic ==
    /\ loop_pc' = "panicked"
    /\ span_rx' = "dropped"
    /\ chan' = <<>>
    /\ cur' = None
    /\ batch' = <<>>
    /\ UNCHANGED <<last_flush, redis_channels, publish_results, sub_stream>>

\* start, lines 123-145: the arm of a received span
Process ==
    /\ loop_pc = "process"
    /\ IF enrich_panics(cur[1]) THEN ProcessPanic ELSE ProcessSpan
    /\ UNCHANGED <<tx_alive, submit_pc, next_span, submit_results>>
    /\ UNCHANGED <<sub_msg, sub_buf, sub_read, ext_published>>
    /\ UNCHANGED <<evalVars, configVars, costVars, storeVars, callVars,
                   taskVars>>

\* Collector::start, line 109: pipeline_handle.abort() ends the task at an
\* await; the receiver, the buffered spans and the batch are dropped.
Abort ==
    /\ loop_pc \in {"select", "process"}
    /\ loop_pc' = "aborted"
    /\ span_rx' = "dropped"
    /\ chan' = <<>>
    /\ cur' = None
    /\ batch' = <<>>
    /\ UNCHANGED <<tx_alive, submit_pc, next_span, submit_results, last_flush>>
    /\ UNCHANGED outsidePipe

\* Every Sender of the input channel is dropped: the channel closes.
DropSenders ==
    /\ tx_alive
    /\ \A p \in Submitters : submit_pc[p] = None
    /\ tx_alive' = FALSE
    /\ UNCHANGED <<span_rx, chan, submit_pc, next_span, submit_results, loop_pc,
                   cur, batch, last_flush>>
    /\ UNCHANGED outsidePipe

PipeInit ==
    /\ span_rx = "parked"
    /\ tx_alive = TRUE
    /\ chan = <<>>
    /\ submit_pc = [p \in Submitters |-> None]
    /\ next_span = 0
    /\ submit_results = EmptyMap
    /\ loop_pc = "init"
    /\ cur = None
    /\ batch = <<>>
    /\ last_flush = None

\* No payload published, and a subscription of channel c just made
RedisInit(c) ==
    /\ redis_channels = [ch \in Channels |-> <<>>]
    /\ publish_results = EmptyMap
    /\ sub_channel = c
    /\ sub_stream = <<>>
    /\ sub_msg = None
    /\ sub_buf = <<>>
    /\ sub_read = <<>>
    /\ ext_published = 0

----------------------------------------------------------------------------
(* Cost calculator: collector/cost.rs. A string is the sequence of its     *)
(* pieces, cut so that the prefix and substring relations of the strings   *)
(* below are those of their sequences. A rate is in units of 0.05 dollars  *)
(* per million tokens, so a cost is in units of 5e-8 dollars.               *)

\* keys of a pricing table
MaxTableKeys == 3

KeyGpt4 == <<"gpt-4">>
KeyGpt4o == <<"gpt-4", "o">>
KeyGpt4oMini == <<"gpt-4", "o", "-mini">>
KeySonnet4 == <<"claude-sonnet-4">>

PricingKeys == {KeyGpt4, KeyGpt4o, KeyGpt4oMini, KeySonnet4}

\* CostCalculator::new: the entries of these keys
ModelPricing(key) ==
    CASE key = KeyGpt4 ->
           [input_per_million |-> 600, output_per_million |-> 1200]
      [] key = KeyGpt4o ->
           [input_per_million |-> 50, output_per_million |-> 200]
      [] key = KeyGpt4oMini ->
           [input_per_million |-> 3, output_per_million |-> 12]
      [] key = KeySonnet4 ->
           [input_per_million |-> 60, output_per_million |-> 300]

ModelNames ==
    {KeyGpt4o,
     <<"gpt-4", "o", "-mini", "-2024-07-18">>,
     <<"ft:", "gpt-4", "o", "-mini">>,
     <<"claude-sonnet-4", "-20250514">>,
     <<"unknown-model-xyz">>}

\* The spans calculate is called with; the token counts are i32 and come
\* from the submitter as they are
CostSpans ==
    [model_name : {None} \cup {Some(m) : m \in ModelNames},
     tokens_in : {None, Some(-1000), Some(1000), Some(1000000)},
     tokens_out : {None, Some(500), Some(500000)},
     tokens_reasoning : {None, Some(200)},
     cost_usd : {None, Some(1)}]

\* str::starts_with
starts_with(str, key) ==
    Len(key) <= Len(str) /\ SubSeq(str, 1, Len(key)) = key

\* str::contains
contains(str, key) ==
    \E i \in 0..(Len(str) - Len(key)) : SubSeq(str, i + 1, i + Len(key)) = key

\* The iteration orders a HashMap with the keys ks can have
IterationOrders(ks) ==
    {q \in [1..Cardinality(ks) -> ks] : SeqToSet(q) = ks}

\* find_pricing, lines 235-239: the first prefix key the iteration meets
first_prefix(order, name) ==
    LET hits == {i \in DOMAIN order : starts_with(name, order[i])}
    IN  IF hits = {} THEN None
        ELSE Some(order[CHOOSE i \in hits : \A j \in hits : i <= j])

\* find_pricing, lines 242-246: the first substring key the iteration meets
first_contained(order, name) ==
    LET hits == {i \in DOMAIN order : contains(name, order[i])}
    IN  IF hits = {} THEN None
        ELSE Some(order[CHOOSE i \in hits : \A j \in hits : i <= j])

\* find_pricing: the key of the entry it returns, or None
find_pricing(order, name) ==
    IF name \in SeqToSet(order) THEN Some(name)
    ELSE IF first_prefix(order, name) # None THEN first_prefix(order, name)
    ELSE first_contained(order, name)

\* Option::unwrap_or(0)
unwrap_or_0(opt) == IF opt = None THEN 0 ELSE opt[1]

\* calculate, lines 219-222
input_cost(span, rates) ==
    unwrap_or_0(span.tokens_in) * rates.input_per_million

output_cost_without_reasoning(span, rates) ==
    unwrap_or_0(span.tokens_out) * rates.output_per_million

output_cost(span, rates) ==
    (unwrap_or_0(span.tokens_out) + unwrap_or_0(span.tokens_reasoning))
        * rates.output_per_million

with_cost_if_unset(span, cost) ==
    IF span.cost_usd = None THEN [span EXCEPT !.cost_usd = Some(cost)]
    ELSE span

\* calculate, line 224
with_cost(span, cost) == [span EXCEPT !.cost_usd = Some(cost)]

\* calculate
calculate(order, span) ==
    IF span.model_name = None THEN span
    ELSE LET found == find_pricing(order, span.model_name[1])
         IN  IF found = None THEN span
             ELSE with_cost(span,
                            input_cost(span, ModelPricing(found[1]))
                                + output_cost(span, ModelPricing(found[1])))

\* calculate is called with a span, on the calculator and on the other one
\* (one call in a behaviour: the call keeps no state)
Calculate ==
    /\ cost_span = None
    /\ \E span \in CostSpans :
          /\ cost_span' = Some(span)
          /\ cost_matched' =
                IF span.model_name = None THEN None
                ELSE find_pricing(pricing, span.model_name[1])
          /\ cost_result' = calculate(pricing, span)
          /\ cost_result_alt' = calculate(pricing_alt, span)
    /\ UNCHANGED <<pricing, pricing_alt>>
    /\ UNCHANGED <<evalVars, pipeVars, configVars, redisVars, subVars,
                   storeVars, callVars, taskVars>>

\* Two calculators with the entries of the keys ks, no call made yet
CostInit(ks) ==
    /\ pricing \in IterationOrders(ks)
    /\ pricing_alt \in IterationOrders(ks)
    /\ cost_span = None
    /\ cost_matched = None
    /\ cost_result = None
    /\ cost_result_alt = None

----------------------------------------------------------------------------
(* Span repository: db/postgres.rs. A row of the table spans is the span   *)
(* it was written from; status stands for the columns that insert updates *)
(* on a conflict.                                                          *)

SpanIds == {"s1", "s2"}
StartedAts == {0, 1}
SpanStatuses == {"ok", "error"}

\* The spans the repository is called with: s1 started at either time and
\* with either status, s2 once
StoreSpans ==
    {span \in [span_id : SpanIds, started_at : StartedAts,
               status : SpanStatuses] :
        span.span_id = "s2" => (span.started_at = 0 /\ span.status = "ok")}

\* The batches flush_batch calls insert_batch with: of 1 to batch_size spans
StoreBatches ==
    UNION {[1..n -> StoreSpans] : n \in 1..BatchSize}

\* The conflict target (span_id, started_at)
conflict(row, span) ==
    row.span_id = span.span_id /\ row.started_at = span.started_at

\* insert, lines 75-99: ON CONFLICT (span_id, started_at) DO UPDATE SET
insert_do_update(table, span) ==
    IF \E row \in table : conflict(row, span)
    THEN {IF conflict(row, span) THEN [row EXCEPT !.status = span.status]
          ELSE row : row \in table}
    ELSE table \cup {span}

\* insert_batch, lines 143-157: ON CONFLICT (span_id, started_at) DO NOTHING
insert_do_nothing(table, span) ==
    IF \E row \in table : conflict(row, span) THEN table
    ELSE table \cup {span}

\* insert_batch, lines 142-190: the statements of the spans, in their order
RECURSIVE insert_statements(_, _)
insert_statements(table, spans) ==
    IF spans = <<>> THEN table
    ELSE insert_statements(insert_do_nothing(table, Head(spans)),
                           Tail(spans))

InsertOk(count) == [ok |-> TRUE, count |-> count]
InsertErr == [ok |-> FALSE, count |-> 0]

\* What can fail in insert_batch: the begin, the statement of a span (the
\* transaction is then aborted: the later statements fail and the commit
\* rolls back), the commit
InsertBatchFailures(spans) ==
    {<<"none">>, <<"begin">>, <<"commit">>}
        \cup {<<"statement", i>> : i \in DOMAIN spans}

\* insert_batch: the table after the call and the result of the call
insert_batch(table, spans, fail) ==
    IF spans = <<>> THEN [table |-> table, result |-> InsertOk(0)]
    ELSE IF fail \in {<<"begin">>, <<"commit">>}
    THEN [table |-> table, result |-> InsertErr]
    ELSE IF fail = <<"none">>
    THEN [table |-> insert_statements(table, spans),
          result |-> InsertOk(Len(spans))]
    ELSE [table |-> table, result |-> InsertOk(fail[2] - 1)]

\* insert: the table after the call and the result of the call
insert(table, span, fail) ==
    IF fail THEN [table |-> table, result |-> InsertErr]
    ELSE [table |-> insert_do_update(table, span), result |-> InsertOk(1)]

\* flush_batch calls insert_batch with its batch
InsertBatch ==
    /\ \E spans \in StoreBatches :
       \E fail \in InsertBatchFailures(spans) :
          LET done == insert_batch(spans_table, spans, fail)
          IN  /\ spans_table' = done.table
              /\ last_insert' = Some([op |-> "insert_batch", spans |-> spans,
                                      result |-> done.result])
    /\ UNCHANGED <<evalVars, pipeVars, configVars, redisVars, subVars,
                   costVars, callVars, taskVars>>

\* insert is called with a span
Insert ==
    /\ \E span \in StoreSpans :
       \E fail \in BOOLEAN :
          LET done == insert(spans_table, span, fail)
          IN  /\ spans_table' = done.table
              /\ last_insert' = Some([op |-> "insert", spans |-> <<span>>,
                                      result |-> done.result])
    /\ UNCHANGED <<evalVars, pipeVars, configVars, redisVars, subVars,
                   costVars, callVars, taskVars>>

\* The table is empty and no call has been made
StoreInit ==
    /\ spans_table = {}
    /\ last_insert = None

\* No test_rule call and no enrich_span call has been made
CallInit ==
    /\ last_test = None
    /\ enrich_arg = None
    /\ enrich_result = None

\* The evaluator loop waits for its first tick
TaskInit ==
    /\ pass_pc = "tick"
    /\ pass_snapshot = <<>>
    /\ pass_rules = <<>>
    /\ pass_log = <<>>
    /\ pass_result = "none"
    /\ task_pc = [p \in Tasks |-> "idle"]
    /\ task_event = [p \in Tasks |-> 0]
    /\ task_created = {}
    /\ task_failed = {}
    /\ counts_lock = 0
    /\ active_lock = 0

----------------------------------------------------------------------------
(* Specifications *)

vars == <<evalVars, pipeVars, configVars, redisVars, subVars, costVars,
          storeVars, callVars, taskVars>>

\* Streaming to Redis switched off, and spans enough to fill the channel
Init ==
    /\ EvalInit
    /\ PipeInit
    /\ RedisInit(ChannelSpans)
    /\ enable_redis_streaming = FALSE
    /\ span_budget = MaxSpans
    /\ straddling_span = 0
    /\ CostInit({KeyGpt4o})
    /\ StoreInit
    /\ CallInit
    /\ TaskInit

\* The alert evaluator
Next == EvaluateRule

Spec == Init /\ [][Next]_vars

Submit == \E p \in Submitters : SubmitCall(p) \/ SubmitResume(p)

\* The ingestion pipeline with its submitters
PipeNext == Submit \/ StartLoop \/ Select \/ Process \/ Abort

PipeSpec == Init /\ [][PipeNext]_vars

\* The pipeline when the senders of its input channel can all be dropped,
\* with the loop of start scheduled fairly
CloseNext == PipeNext \/ DropSenders

FairCloseSpec ==
    Init /\ [][CloseNext]_vars /\ WF_vars(Select) /\ WF_vars(Process)

\* spans submitted when the pipeline streams to Redis
MaxStreamSpans == 3

\* Streaming to Redis switched on, a subscription of some channel, and a
\* few spans
StreamInit ==
    /\ EvalInit
    /\ PipeInit
    /\ \E c \in Channels : RedisInit(c)
    /\ enable_redis_streaming = TRUE
    /\ span_budget = MaxStreamSpans
    /\ straddling_span = 0
    /\ CostInit({KeyGpt4o})
    /\ StoreInit
    /\ CallInit
    /\ TaskInit

StreamNext ==
    \/ \E p \in Submitters : SubmitCall(p)
    \/ StartLoop
    \/ Select
    \/ Process
    \/ SubTake
    \/ SubSend
    \/ SubRead

StreamSpec == StreamInit /\ [][StreamNext]_vars

\* A subscription fed by other publishers
SubNext == ExternalPublish \/ SubTake \/ SubSend \/ SubRead

SubSpec == Init /\ [][SubNext]_vars

\* Calculators over every table of at most MaxTableKeys keys
CostSpecInit ==
    /\ EvalInit
    /\ PipeInit
    /\ RedisInit(ChannelSpans)
    /\ enable_redis_streaming = FALSE
    /\ span_budget = MaxSpans
    /\ straddling_span = 0
    /\ \E ks \in SUBSET PricingKeys :
          Cardinality(ks) <= MaxTableKeys /\ CostInit(ks)
    /\ StoreInit
    /\ CallInit
    /\ TaskInit

CostNext == Calculate

CostSpec == CostSpecInit /\ [][CostNext]_vars

\* The span repository called with batches and with spans
StoreNext == InsertBatch \/ Insert

StoreSpec == Init /\ [][StoreNext]_vars

\* The create and update requests on the alert rules, which all satisfy
\* the constraints of a rule at the start
RuleInit ==
    /\ alert_rules = [id \in RuleIds |-> StoredRule(id)]
    /\ alert_events = <<>>
    /\ failure_counts = EmptyMap
    /\ active_alerts = EmptyMap
    /\ send_log = <<>>
    /\ storage_errors = 0
    /\ last_eval = [rule |-> 1, branch |-> "none", error |-> "none"]
    /\ PipeInit
    /\ RedisInit(ChannelSpans)
    /\ enable_redis_streaming = FALSE
    /\ span_budget = MaxSpans
    /\ straddling_span = 0
    /\ CostInit({KeyGpt4o})
    /\ StoreInit
    /\ CallInit
    /\ TaskInit

RuleNext == CreateAlertRule \/ UpdateAlertRule

RuleSpec == RuleInit /\ [][RuleNext]_vars

\* The pipeline when at most one of the submitted spans has a preview
\* with a character across byte 500
EnrichLoopInit ==
    /\ EvalInit
    /\ PipeInit
    /\ RedisInit(ChannelSpans)
    /\ enable_redis_streaming = FALSE
    /\ span_budget = MaxStreamSpans
    /\ straddling_span \in 0..MaxStreamSpans
    /\ CostInit({KeyGpt4o})
    /\ StoreInit
    /\ CallInit
    /\ TaskInit

EnrichLoopNext ==
    \/ \E p \in Submitters : SubmitCall(p)
    \/ StartLoop
    \/ Select
    \/ Process

EnrichLoopSpec == EnrichLoopInit /\ [][EnrichLoopNext]_vars

\* enrich_span applied to spans
EnrichNext == Enrich

EnrichSpec == Init /\ [][EnrichNext]_vars

\* The evaluator loop on rule 1 (rule 2 disabled)
NotifyInit ==
    /\ alert_rules =
          [id \in RuleIds |-> [InitRule(id) EXCEPT !.enabled = (id = 1)]]
    /\ alert_events = <<>>
    /\ failure_counts = EmptyMap
    /\ active_alerts = EmptyMap
    /\ send_log = <<>>
    /\ storage_errors = 0
    /\ last_eval = [rule |-> 1, branch |-> "none", error |-> "none"]
    /\ PipeInit
    /\ RedisInit(ChannelSpans)
    /\ enable_redis_streaming = FALSE
    /\ span_budget = MaxSpans
    /\ straddling_span = 0
    /\ CostInit({KeyGpt4o})
    /\ StoreInit
    /\ CallInit
    /\ TaskInit

NotifyNext == EvaluateRule

NotifySpec == NotifyInit /\ [][NotifyNext]_vars

\* The evaluator loop on rule 1 (rule 2 disabled), which here notifies
\* nobody, with the test requests of the API
TestInit ==
    /\ alert_rules =
          [id \in RuleIds |->
              [InitRule(id) EXCEPT !.enabled = (id = 1),
                                   !.notification_channels = <<>>]]
    /\ alert_events = <<>>
    /\ failure_counts = EmptyMap
    /\ active_alerts = EmptyMap
    /\ send_log = <<>>
    /\ storage_errors = 0
    /\ last_eval = [rule |-> 1, branch |-> "none", error |-> "none"]
    /\ PipeInit
    /\ RedisInit(ChannelSpans)
    /\ enable_redis_streaming = FALSE
    /\ span_budget = MaxSpans
    /\ straddling_span = 0
    /\ CostInit({KeyGpt4o})
    /\ StoreInit
    /\ CallInit
    /\ TaskInit

TestNext == EvaluateRule \/ TestAlertRule

TestSpec == TestInit /\ [][TestNext]_vars

\* The evaluator loop: both rules enabled, rule 1 without channels
PassInit ==
    /\ alert_rules =
          [id \in RuleIds |->
              [InitRule(id) EXCEPT !.notification_channels = <<>>]]
    /\ alert_events = <<>>
    /\ failure_counts = EmptyMap
    /\ active_alerts = EmptyMap
    /\ send_log = <<>>
    /\ storage_errors = 0
    /\ last_eval = [rule |-> 1, branch |-> "none", error |-> "none"]
    /\ PipeInit
    /\ RedisInit(ChannelSpans)
    /\ enable_redis_streaming = FALSE
    /\ span_budget = MaxSpans
    /\ straddling_span = 0
    /\ CostInit({KeyGpt4o})
    /\ StoreInit
    /\ CallInit
    /\ TaskInit

PassNext == EvaluateAll \/ EvaluateAllRule

PassSpec == PassInit /\ [][PassNext]_vars

\* Rule 1 has no threshold, with any operator, and fires on the first
\* breach; rule 2 is as stored
NoThresholdInit ==
    /\ \E op \in Operators :
          alert_rules =
             [id \in RuleIds |->
                 IF id = 1
                 THEN [InitRule(1) EXCEPT !.threshold = None,
                                          !.operator = op,
                                          !.consecutive_failures = 1,
                                          !.notification_channels = <<>>]
                 ELSE InitRule(id)]
    /\ alert_events = <<>>
    /\ failure_counts = EmptyMap
    /\ active_alerts = EmptyMap
    /\ send_log = <<>>
    /\ storage_errors = 0
    /\ last_eval = [rule |-> 1, branch |-> "none", error |-> "none"]
    /\ PipeInit
    /\ RedisInit(ChannelSpans)
    /\ enable_redis_streaming = FALSE
    /\ span_budget = MaxSpans
    /\ straddling_span = 0
    /\ CostInit({KeyGpt4o})
    /\ StoreInit
    /\ CallInit
    /\ TaskInit

NoThresholdNext == EvaluateRule

NoThresholdSpec == NoThresholdInit /\ [][NoThresholdNext]_vars

\* The evaluator loop with the requests that disable and delete rules;
\* rule 2 is enabled, rule 1 is disabled from the start
RetireInit ==
    /\ alert_rules =
          [id \in RuleIds |-> [StoredRule(id) EXCEPT !.enabled = (id = 2)]]
    /\ alert_events = <<>>
    /\ failure_counts = EmptyMap
    /\ active_alerts = EmptyMap
    /\ send_log = <<>>
    /\ storage_errors = 0
    /\ last_eval = [rule |-> 1, branch |-> "none", error |-> "none"]
    /\ PipeInit
    /\ RedisInit(ChannelSpans)
    /\ enable_redis_streaming = FALSE
    /\ span_budget = MaxSpans
    /\ straddling_span = 0
    /\ CostInit({KeyGpt4o})
    /\ StoreInit
    /\ CallInit
    /\ TaskInit

RetireNext ==
    EvaluateAll \/ EvaluateAllRule \/ DisableAlertRule \/ DeleteAlertRule

\* The ticker of start fires again and again and every pass goes on
FairRetireSpec ==
    /\ RetireInit
    /\ [][RetireNext]_vars
    /\ WF_vars(EvaluateAll)
    /\ WF_vars(EvaluateAllRule)

\* Two evaluate_rule calls on rule 2 run at the same time on one evaluator
ConcInit == RetireInit

ConcNext == \E p \in Tasks : TaskStep(p)

ConcSpec == ConcInit /\ [][ConcNext]_vars

\* The two calls scheduled fairly
FairConcSpec ==
    /\ ConcInit
    /\ [][ConcNext]_vars
    /\ \A p \in Tasks : WF_vars(TaskStep(p))

\* The evaluator loop with the acknowledge requests of the API
AckNext == EvaluateRule \/ AcknowledgeAlert

\* Rule 1 disabled: the events are those of rule 2
AckInit ==
    /\ alert_rules =
          [id \in RuleIds |-> [InitRule(id) EXCEPT !.enabled = (id = 2)]]
    /\ alert_events = <<>>
    /\ failure_counts = EmptyMap
    /\ active_alerts = EmptyMap
    /\ send_log = <<>>
    /\ storage_errors = 0
    /\ last_eval = [rule |-> 1, branch |-> "none", error |-> "none"]
    /\ PipeInit
    /\ RedisInit(ChannelSpans)
    /\ enable_redis_streaming = FALSE
    /\ span_budget = MaxSpans
    /\ straddling_span = 0
    /\ CostInit({KeyGpt4o})
    /\ StoreInit
    /\ CallInit
    /\ TaskInit

AckSpec == AckInit /\ [][AckNext]_vars

----------------------------------------------------------------------------
(* Properties of the alert evaluator *)

\* The rows of alert_events of a rule
EventsOf(rows, r) == {i \in DOMAIN rows : rows[i].rule_id = r}

\* send_all calls made for an event
SendAllCalls(event) ==
    Cardinality({i \in DOMAIN send_log : send_log[i].event = event})

\* This step is an evaluate_rule call on rule r that takes the branch
IsEval(r, branch) == last_eval'.rule = r /\ last_eval'.branch = branch

\* This step adds one row to alert_events, an active event of rule r with
\* the rule's severity, and changes no other row
CreatesEvent(r) ==
    /\ Len(alert_events') = Len(alert_events) + 1
    /\ SubSeq(alert_events', 1, Len(alert_events)) = alert_events
    /\ LET e == alert_events'[Len(alert_events')]
       IN  /\ e.rule_id = r
           /\ e.status = "active"
           /\ e.severity = alert_rules[r].severity

\* C1: from no failure count and no active alert, every breaching evaluation
\* of a rule adds one to its failure count; while the count stays below
\* consecutive_failures no event is created and nothing is sent; the
\* evaluation that brings the count to consecutive_failures creates exactly
\* one event, with status active and the rule's severity (none only when
\* storage rejects the insert and the evaluation returns the error).
C1_EventOnKthBreach ==
    [][\A r \in RuleIds :
        IsEval(r, "breach")
        => LET K == alert_rules[r].consecutive_failures
               n == Count(failure_counts', r)
           IN  /\ n = Count(failure_counts, r) + 1
               /\ n < K => /\ alert_events' = alert_events
                           /\ send_log' = send_log
                           /\ r \notin DOMAIN active_alerts'
               /\ n = K => \/ CreatesEvent(r)
                           \/ /\ last_eval'.error = "create_event"
                              /\ alert_events' = alert_events
    ]_vars

\* rule 1 (consecutive_failures = 3) after its third breach in a row: its
\* one event is the only row
C1_Witness ==
    /\ Count(failure_counts, 1) = alert_rules[1].consecutive_failures
    /\ last_eval = [rule |-> 1, branch |-> "breach", error |-> "none"]
    /\ 1 \in DOMAIN active_alerts
    /\ Len(alert_events) = 1
    /\ alert_events[1].rule_id = 1
    /\ alert_events[1].status = "active"
    /\ alert_events[1].severity = "warning"

\* C2: each rule has at most one event that was created and is not resolved,
\* also when storage writes of handle_breach or handle_recovery fail.
C2_AtMostOneUnresolved ==
    \A r \in RuleIds :
        Cardinality({i \in EventsOf(alert_events, r) :
                        alert_events[i].status # "resolved"}) <= 1

\* C3: while a rule has an entry in active_alerts, a breaching evaluation of
\* it creates no event and sends nothing, and send_all has been called
\* exactly once for the rule's active event, whatever its deliveries did.
C3_NoRetriggerWhileActive ==
    /\ [](\A r \in DOMAIN active_alerts :
            SendAllCalls(active_alerts[r].id) = 1)
    /\ [][\A r \in DOMAIN active_alerts :
            IsEval(r, "breach")
            => /\ alert_events' = alert_events
               /\ send_log' = send_log
               /\ active_alerts' = active_alerts
       ]_vars

\* rule 1 breached again while its event, with a failed delivery, is active
C3_Witness ==
    /\ 1 \in DOMAIN active_alerts
    /\ last_eval.rule = 1 /\ last_eval.branch = "breach"
    /\ Count(failure_counts, 1) > alert_rules[1].consecutive_failures
    /\ \E i \in DOMAIN alert_events :
          /\ alert_events[i].id = active_alerts[1].id
          /\ \E j \in DOMAIN alert_events[i].notifications_sent :
                ~alert_events[i].notifications_sent[j].success
    /\ Cardinality(EventsOf(alert_events, 1)) = 1

\* C4: after an evaluation of a rule whose value does not breach, the rule
\* has no entry in failure_counts and none in active_alerts, and the event
\* that was active is stored as resolved with resolved_at set (unless
\* storage rejects that update and the evaluation returns the error).
C4_RecoveryClears ==
    [][\A r \in RuleIds :
        IsEval(r, "recovery")
        => /\ r \notin DOMAIN failure_counts'
           /\ r \notin DOMAIN active_alerts'
           /\ (r \in DOMAIN active_alerts
               /\ last_eval'.error # "resolve_event")
                => LET e == alert_events'[active_alerts[r].id]
                   IN  /\ e.rule_id = r
                       /\ e.status = "resolved"
                       /\ e.resolved_at # None
    ]_vars

\* rule 2 has just recovered: its event is resolved and its entries are gone
C4_Witness ==
    /\ last_eval = [rule |-> 2, branch |-> "recovery", error |-> "none"]
    /\ 2 \notin DOMAIN failure_counts
    /\ 2 \notin DOMAIN active_alerts
    /\ \E i \in EventsOf(alert_events, 2) :
          /\ alert_events[i].status = "resolved"
          /\ alert_events[i].resolved_at # None

\* The conceptual machine of a rule: Healthy, Suspected(n), Active
AbsState(counts, active, r) ==
    IF r \in DOMAIN active THEN <<"Active">>
    ELSE IF r \in DOMAIN counts THEN <<"Suspected", counts[r]>>
    ELSE <<"Healthy">>

AbsNext(a, K, breach) ==
    IF ~breach THEN <<"Healthy">>
    ELSE IF a = <<"Active">> THEN <<"Active">>
    ELSE LET n == IF a = <<"Healthy">> THEN 0 ELSE a[2]
         IN  IF n + 1 >= K THEN <<"Active">> ELSE <<"Suspected", n + 1>>

\* C5: every breach or no-breach evaluation whose handler returns Ok moves
\* the rule as the conceptual machine does; it creates an event (and calls
\* send_all for it) exactly when the rule enters Active, resolves the active
\* event exactly when the rule leaves Active, and otherwise leaves the
\* events and the notifications as they are.
C5_RefinesStateMachine ==
    [][\A r \in RuleIds :
        (/\ IsEval(r, "breach") \/ IsEval(r, "recovery")
         /\ last_eval'.error \in {"none", "last_evaluated"})
        => LET a == AbsState(failure_counts, active_alerts, r)
               b == AbsState(failure_counts', active_alerts', r)
               enters == a # <<"Active">> /\ b = <<"Active">>
               leaves == a = <<"Active">> /\ b # <<"Active">>
           IN  /\ b = AbsNext(a, alert_rules[r].consecutive_failures,
                              IsEval(r, "breach"))
               /\ enters =>
                    /\ CreatesEvent(r)
                    /\ send_log' = Append(send_log,
                                          [event |-> Len(alert_events')])
                    /\ active_alerts'[r].id = Len(alert_events')
               /\ leaves =>
                    /\ Len(alert_events') = Len(alert_events)
                    /\ \A i \in DOMAIN alert_events :
                          IF i = active_alerts[r].id
                          THEN alert_events'[i].status = "resolved"
                          ELSE alert_events'[i] = alert_events[i]
                    /\ send_log' = send_log
               /\ (~enters /\ ~leaves) =>
                    /\ alert_events' = alert_events
                    /\ send_log' = send_log
    ]_vars

\* rule 1 after the values 10, 10, 10, 10: one event, created by the third
C5_Witness ==
    /\ Count(failure_counts, 1) = 4
    /\ alert_rules[1].consecutive_failures = 3
    /\ 1 \in DOMAIN active_alerts
    /\ EventsOf(alert_events, 1) = {active_alerts[1].id}
    /\ SendAllCalls(active_alerts[1].id) = 1
    /\ storage_errors = 0

\* The place of a status on the way active -> acknowledged -> resolved
StatusRank(status) ==
    CASE status = "active" -> 1
      [] status = "acknowledged" -> 2
      [] status = "resolved" -> 3

\* C21: the status of an alert event only moves forward on
\* active -> acknowledged -> resolved, however the acknowledge requests
\* interleave with the evaluator's resolution.
C21_StatusForwardOnly ==
    [][\A i \in DOMAIN alert_events :
          StatusRank(alert_events'[i].status)
              >= StatusRank(alert_events[i].status)]_vars

\* C22: every stored rule has window_minutes >= 1,
\* evaluation_interval_seconds >= 1, consecutive_failures >= 1 and a metric
\* name the evaluator knows: create_rule and update_rule store nothing else.
C22_StoredRulesValid ==
    \A id \in DOMAIN alert_rules :
        /\ alert_rules[id].window_minutes >= 1
        /\ alert_rules[id].evaluation_interval_seconds >= 1
        /\ alert_rules[id].consecutive_failures >= 1
        /\ alert_rules[id].metric \in KnownMetrics

\* C23: every evaluate_rule call that no storage error ends sets the rule's
\* last_evaluated_at: when the metric has no data, when the value breaches
\* and when it does not.
C23_LastEvaluatedAlways ==
    [][\A r \in RuleIds :
          (/\ last_eval'.rule = r
           /\ last_eval'.branch \in {"no_data", "breach", "recovery"}
           /\ last_eval'.error = "none")
          => alert_rules'[r].last_evaluated_at = Some(UtcNow)]_vars

\* C24: test_rule changes nothing (failure counts, active alerts, events,
\* rule timestamps and notifications stay as they are) and returns an event
\* exactly when the metric has a value that breaches the threshold,
\* whatever the rule's failure count and active alert are.
C24_TestRuleDryRun ==
    [][last_test' # last_test =>
          LET call == last_test'[1]
              rule == alert_rules[call.rule]
          IN  /\ evalVars' = evalVars
              /\ call.result.ok =>
                    (call.result.event # None
                       <=> (call.metric # None
                              /\ check(rule, call.metric[1])))]_vars

\* C24 happens: test_rule has returned an event for rule 1
\* (consecutive_failures = 3) with no breach counted, or while its alert
\* was active.
C24_Witness ==
    /\ last_test # None
    /\ last_test[1].rule = 1
    /\ last_test[1].result.event # None
    /\ \/ 1 \notin DOMAIN failure_counts
       \/ 1 \in DOMAIN active_alerts

\* C25: send_all yields one result per channel of the rule, in the order of
\* the channels; a result is a success without error text or a failure with
\* one, and a failure does not end the deliveries: the results of the
\* channels after it are there.
C25_OneResultPerChannel ==
    [][(Len(send_log') = Len(send_log) + 1 /\ last_eval'.error = "none")
       => LET channels == alert_rules[last_eval'.rule].notification_channels
              event == alert_events'[Len(alert_events')]
              results == event.notifications_sent
          IN  /\ event.id = send_log'[Len(send_log')].event
              /\ Len(results) = Len(channels)
              /\ \A i \in DOMAIN results :
                    /\ results[i].channel_type = channels[i]
                    /\ results[i].success \in BOOLEAN
                    /\ results[i].success <=> results[i].error = None
      ]_vars

\* C25 happens: the first delivery of an event failed and the second one
\* succeeded.
C25_Witness ==
    \E i \in DOMAIN alert_events :
        /\ Len(alert_events[i].notifications_sent) = 2
        /\ ~alert_events[i].notifications_sent[1].success
        /\ alert_events[i].notifications_sent[1].error # None
        /\ alert_events[i].notifications_sent[2].success

----------------------------------------------------------------------------
(* Properties of the ingestion pipeline *)

InHand == IF cur = None THEN 0 ELSE 1

Last(q) == q[Len(q)]

\* The spans of the latest insert_batch call
FlushedSpans(f) == IF f = None THEN {} ELSE SeqToSet(f[1].spans)

\* The spans in the channel c, in the hand k of start and in the batch b
Buffered(c, k, b) ==
    SeqToSet(c) \cup SeqToSet(b) \cup (IF k = None THEN {} ELSE {k[1]})

Blocked(p) == submit_pc[p] # None

C7_FailedBatchNotRetried ==
    [][/\ last_flush' # last_flush =>
            /\ last_flush'[1].spans =
                  (IF cur = None THEN batch ELSE Append(batch, cur[1]))
            /\ ~last_flush'[1].ok => batch' = <<>> /\ loop_pc' = "select"
            /\ (last_flush # None /\ ~last_flush[1].ok) =>
                  SeqToSet(last_flush'[1].spans)
                      \cap SeqToSet(last_flush[1].spans) = {}
       /\ (last_flush' # None /\ ~last_flush'[1].ok) =>
             SeqToSet(last_flush'[1].spans) \cap Buffered(chan', cur', batch')
                 = {}]_vars

\* C7 happens: the latest flush failed and the loop has received a span
\* submitted after the spans of the failed batch.
C7_Witness ==
    /\ last_flush # None
    /\ ~last_flush[1].ok
    /\ loop_pc = "process"
    /\ \A x \in SeqToSet(last_flush[1].spans) : cur[1] > x

\* C8: the input channel never holds more than batch_size * 10 spans; a
\* submit waiting on a full channel stays waiting, its span not enqueued,
\* until start has received a span; and the channel only ever changes by a
\* span appended at its tail or its oldest span received by start, so none
\* is dropped or overwritten to make room.
C8_ChannelBounded ==
    [][/\ Len(chan') <= Capacity
       /\ \A p \in Submitters :
             (Blocked(p) /\ Len(chan) = Capacity /\ span_rx # "dropped") =>
                 /\ submit_pc'[p] = submit_pc[p]
                 /\ submit_pc[p][1] \notin DOMAIN submit_results'
                 /\ submit_pc[p][1] \notin SeqToSet(chan')
       /\ span_rx' # "dropped" =>
             \/ chan' = chan
             \/ /\ Len(chan') = Len(chan) + 1
                /\ chan' = Append(chan, Last(chan'))
                /\ Last(chan') \notin SeqToSet(chan)
             \/ chan # <<>> /\ chan' = Tail(chan) /\ cur' = Some(Head(chan))
      ]_vars

\* C8 happens: the channel is full with a submit waiting on it, after an
\* earlier submit beyond the capacity was let in.
C8_Witness ==
    /\ Len(chan) = Capacity
    /\ \E p \in Submitters : Blocked(p)
    /\ \E id \in DOMAIN submit_results :
          id > Capacity /\ submit_results[id] = "ok"

\* C9 as stated: the spans in the input channel plus the spans in the batch
\* buffer never exceed batch_size * 10.
C9_InFlightBudget == Len(chan) + Len(batch) <= Capacity

\* C9 amended: the spans accepted and not yet handed to a flush (in the
\* input channel, being processed by start, or in the batch buffer) never
\* exceed batch_size * 10 + batch_size.
C9_InFlightBudgetAmended ==
    Len(chan) + InHand + Len(batch) <= Capacity + BatchSize

\* C9 happens: the amended budget is used up.
C9_Witness == Len(chan) + InHand + Len(batch) = Capacity + BatchSize

\* C10: a submit call returns Ok exactly in the step that enqueues its span
\* (and a span is enqueued only by a submit that returns Ok) and
\* Error::Channel exactly when the receiver no longer exists, the channel
\* then left as it was; every span that is in the channel, in the hand of
\* start, in the batch or in a flush is one whose submit returned Ok, so a
\* span whose submit returned the error is never enqueued or processed.
C10_SubmitResult ==
    [][/\ \A id \in DOMAIN submit_results' \ DOMAIN submit_results :
             /\ submit_results'[id] = "ok" <=> chan' = Append(chan, id)
             /\ submit_results'[id] = "err" <=> span_rx = "dropped"
             /\ submit_results'[id] = "err" => chan' = chan
       /\ Len(chan') > Len(chan) =>
             /\ Last(chan') \in DOMAIN submit_results' \ DOMAIN submit_results
             /\ submit_results'[Last(chan')] = "ok"
       /\ \A id \in Buffered(chan', cur', batch')
                     \cup FlushedSpans(last_flush') :
             id \in DOMAIN submit_results' /\ submit_results'[id] = "ok"]_vars

\* C10 happens: submit calls have returned Ok and Error::Channel, one of the
\* errors to a submit that had been waiting on a full channel.
C10_Witness ==
    /\ \E id \in DOMAIN submit_results : submit_results[id] = "ok"
    /\ \E id \in DOMAIN submit_results :
          /\ submit_results[id] = "err"
          /\ id = Capacity + 1
    /\ span_rx = "dropped"

----------------------------------------------------------------------------
(* Properties of the Redis streaming *)

\* The spans whose publish_span call returns in this step
NowPublished == DOMAIN publish_results' \ DOMAIN publish_results

\* The channels a span's payload belongs on
Applicable(span) ==
    {ChannelSpans, TraceChannel(trace_id(span))}
        \cup (IF model_name(span) # None THEN {ChannelLlm} ELSE {})

\* C11: when publish_span returns Ok for a span, that call has put its
\* payload, not on any channel before, once on the spans channel, once on
\* the channel of its trace_id, once on the llm channel iff model_name is
\* set, and on no other channel; a subscription receives it iff it is of one
\* of those channels.
C11_PublishRouting ==
    [][\A s \in NowPublished :
         publish_results'[s] = "ok" =>
            /\ \A c \in Channels :
                  /\ s \notin SeqToSet(redis_channels[c])
                  /\ redis_channels'[c] =
                        IF c \in Applicable(s)
                        THEN Append(redis_channels[c], s)
                        ELSE redis_channels[c]
            /\ sub_stream' =
                  IF sub_channel \in Applicable(s)
                  THEN Append(sub_stream, s) ELSE sub_stream]_vars

\* C11 happens: span 1 (trace T1, an LLM span) and span 3 (trace T1, not
\* one) have been published, and the subscription of the channel of trace
\* T2 has received nothing.
C11_Witness ==
    /\ 1 \in DOMAIN publish_results /\ publish_results[1] = "ok"
    /\ 3 \in DOMAIN publish_results /\ publish_results[3] = "ok"
    /\ redis_channels[ChannelSpans] = <<1, 3>>
    /\ redis_channels[ChannelLlm] = <<1>>
    /\ sub_channel = TraceChannel("T2")
    /\ sub_stream = <<>> /\ sub_msg = None
    /\ sub_buf = <<>> /\ sub_read = <<>>

\* C12: when a publish of publish_span fails, the call returns the error
\* and has still published the payload on the applicable channels that
\* follow the failed one.
C12_RemainingChannelsAttempted ==
    [][\A s \in NowPublished :
         /\ publish_results'[s] = "spans" =>
               \A c \in Applicable(s) \ {ChannelSpans} :
                   redis_channels'[c] = Append(redis_channels[c], s)
         /\ publish_results'[s] = "trace" =>
               \A c \in Applicable(s) \cap {ChannelLlm} :
                   redis_channels'[c] = Append(redis_channels[c], s)]_vars

\* C13: the step of the loop in which publish_span fails for a span still
\* puts the span in the batch, or in the flush the full batch gets in that
\* step, and leaves the loop at its select, ready for the following spans.
C13_PublishFailureKeepsSpan ==
    [][\A s \in NowPublished :
         publish_results'[s] # "ok" =>
            /\ \/ batch' = Append(batch, s)
               \/ /\ last_flush' # last_flush
                  /\ last_flush'[1].spans = Append(batch, s)
            /\ loop_pc' = "select"]_vars

\* C13 happens: a span whose publish failed is in the latest flush, and a
\* span submitted after it has been processed.
C13_Witness ==
    \E s \in DOMAIN publish_results :
       /\ publish_results[s] # "ok"
       /\ s \in FlushedSpans(last_flush)
       /\ \E t \in DOMAIN publish_results : t > s

\* C14: the task of a subscription is never kept waiting with a payload in
\* hand: the payload it has taken can always go into the buffer (a full
\* buffer gives up its oldest payload for it).
C14_OverflowDropsOldest == sub_msg # None => ENABLED SubSend

Increasing(q) == \A i, j \in DOMAIN q : i < j => q[i] < q[j]

\* The payloads of the subscription from the reader back to Redis
SubPath ==
    sub_read \o sub_buf \o (IF sub_msg = None THEN <<>> ELSE sub_msg)
        \o sub_stream

\* C15: spans are accepted in the order of their numbers (no submit ever
\* waits here), each channel holds its payloads in that order, and the
\* subscription hands the payloads of its channel to the reader in that
\* order, none skipped.
C15_PublishOrder ==
    /\ \A p \in Submitters : ~Blocked(p)
    /\ Increasing(chan)
    /\ \A c \in Channels : Increasing(redis_channels[c])
    /\ SubPath = redis_channels[sub_channel]

\* C15 happens: the reader has received two payloads of a channel that
\* holds more.
C15_Witness ==
    /\ Len(sub_read) = 2
    /\ Len(redis_channels[sub_channel]) > 2

\* The spans whose payload Redis has delivered on some channel
PublishedSpans == UNION {SeqToSet(redis_channels[c]) : c \in Channels}

\* C35: a span whose payload was published is a stored row or becomes one:
\* it is never in a batch that insert_batch rejected, since flush_batch
\* drops such a batch and its spans reach no later insert_batch.
C35_PublishedIsPersisted ==
    (last_flush # None /\ ~last_flush[1].ok)
        => SeqToSet(last_flush[1].spans) \cap PublishedSpans = {}

----------------------------------------------------------------------------
(* Properties of the cost calculator *)

\* The keys of the table that are a prefix / a substring of a model name
PrefixKeys(name) == {k \in SeqToSet(pricing) : starts_with(name, k)}
SubstringKeys(name) == {k \in SeqToSet(pricing) : contains(name, k)}

\* C16: the lookup returns the entry of the equal key if there is one,
\* otherwise of the longest key that is a prefix of the model name,
\* otherwise of a key that is a substring of it, otherwise nothing.
C16_LookupOrder ==
    (cost_span # None /\ cost_span[1].model_name # None) =>
        LET name == cost_span[1].model_name[1]
        IN  IF name \in SeqToSet(pricing) THEN cost_matched = Some(name)
            ELSE IF PrefixKeys(name) # {}
            THEN cost_matched =
                   Some(CHOOSE k \in PrefixKeys(name) :
                          \A j \in PrefixKeys(name) : Len(j) <= Len(k))
            ELSE IF SubstringKeys(name) # {}
            THEN cost_matched # None
                   /\ cost_matched[1] \in SubstringKeys(name)
            ELSE cost_matched = None

\* C17: two calculators with equal pricing tables give equal spans the same
\* cost_usd, whatever the iteration orders of their tables.
C17_Deterministic ==
    cost_span # None => cost_result.cost_usd = cost_result_alt.cost_usd

\* C18: calculate sets cost_usd, whatever it was, on a span whose model_name
\* has a key of the table as a substring (an equal key and a prefix are
\* substrings), changing no other field, and returns every other span as it
\* was; it returns a span for every span. (The cost_usd a span comes with, 1
\* unit, is the cost of none of these spans.)
C18_CalculateFrame ==
    cost_span # None =>
        LET span == cost_span[1]
            matches == /\ span.model_name # None
                       /\ SubstringKeys(span.model_name[1]) # {}
        IN  /\ DOMAIN cost_result = DOMAIN span
            /\ matches =>
                  /\ cost_result.cost_usd # None
                  /\ cost_result.cost_usd # span.cost_usd
                  /\ cost_result =
                        [span EXCEPT !.cost_usd = cost_result.cost_usd]
            /\ ~matches => cost_result = span

\* C18 happens: calculate has replaced the cost_usd a matched span came
\* with.
C18_Witness ==
    /\ cost_span # None
    /\ cost_span[1].cost_usd = Some(1)
    /\ cost_matched # None
    /\ cost_result.cost_usd \notin {None, Some(1)}

\* C19: the cost of a span matched to an entry is tokens_in times the input
\* rate plus (tokens_out + tokens_reasoning) times the output rate, per
\* million tokens, an absent count being 0: 1000 in / 500 out on
\* claude-sonnet-4-20250514 costs 0.0105 (210000 units of 5e-8), 1,000,000
\* in / 500,000 out on gpt-4o costs 7.50 (150000000 units).
C19_CostFormula ==
    (cost_span # None /\ cost_matched # None) =>
        LET span == cost_span[1]
            rates == ModelPricing(cost_matched[1])
            t_in == IF span.tokens_in = None THEN 0 ELSE span.tokens_in[1]
            t_out == IF span.tokens_out = None THEN 0 ELSE span.tokens_out[1]
            t_reasoning == IF span.tokens_reasoning = None THEN 0
                           ELSE span.tokens_reasoning[1]
            plain == /\ span.tokens_in = Some(1000)
                     /\ span.tokens_out = Some(500)
                     /\ span.tokens_reasoning = None
            large == /\ span.tokens_in = Some(1000000)
                     /\ span.tokens_out = Some(500000)
                     /\ span.tokens_reasoning = None
        IN  /\ cost_result.cost_usd =
                  Some(t_in * rates.input_per_million
                         + (t_out + t_reasoning) * rates.output_per_million)
            /\ (plain /\ cost_matched = Some(KeySonnet4)) =>
                  cost_result.cost_usd = Some(210000)
            /\ (large /\ cost_matched = Some(KeyGpt4o)) =>
                  cost_result.cost_usd = Some(150000000)

\* C19 happens: claude-sonnet-4-20250514 with 1000 tokens in, 500 out and
\* 200 reasoning tokens has been costed at 0.0135.
C19_Witness ==
    /\ cost_span # None
    /\ cost_span[1].model_name = Some(<<"claude-sonnet-4", "-20250514">>)
    /\ cost_span[1].tokens_in = Some(1000)
    /\ cost_span[1].tokens_out = Some(500)
    /\ cost_span[1].tokens_reasoning = Some(200)
    /\ cost_result.cost_usd = Some(270000)

\* C33: a span that leaves the cost calculation with cost_usd set has
\* cost_usd >= 0, whatever token counts it was submitted with.
C33_CostNotNegative ==
    (cost_span # None /\ cost_result.cost_usd # None)
        => cost_result.cost_usd[1] >= 0

----------------------------------------------------------------------------
(* Properties of the span repository *)

\* The last span of a batch with the conflict target of span
LaterSubmission(spans, span) ==
    spans[CHOOSE i \in DOMAIN spans :
            /\ conflict(spans[i], span)
            /\ \A j \in DOMAIN spans : conflict(spans[j], span) => j <= i]

\* C20: when the pipeline has stored a batch, the table has exactly one row
\* with the (span_id, started_at) of each span of the batch, and the
\* columns of that row that are updated on a conflict hold the values of
\* the latest submission of that (span_id, started_at).
C20_LaterSubmissionStored ==
    [][(/\ last_insert' # None
        /\ last_insert'[1].op = "insert_batch"
        /\ last_insert'[1].result = InsertOk(Len(last_insert'[1].spans)))
       => \A i \in DOMAIN last_insert'[1].spans :
             LET span == last_insert'[1].spans[i]
                 rows == {row \in spans_table' : conflict(row, span)}
             IN  /\ Cardinality(rows) = 1
                 /\ \A row \in rows :
                       row.status =
                         LaterSubmission(last_insert'[1].spans, span).status
      ]_vars

\* C29: the count insert_batch returns is the number of rows the call has
\* added to the table: a span whose (span_id, started_at) is in the table
\* already, or earlier in the batch, is not counted.
C29_CountIsRowsWritten ==
    [][(/\ last_insert' # None
        /\ last_insert'[1].op = "insert_batch"
        /\ last_insert'[1].result.ok)
       => last_insert'[1].result.count =
             Cardinality(spans_table') - Cardinality(spans_table)
      ]_vars

\* C37: when resolve_event fails in handle_recovery, the rule's event is
\* still in active_alerts after the call (so that a later evaluation
\* without breach resolves it): no event stays stored as active with the
\* evaluator having forgotten it.
C37_FailedResolveKeepsActive ==
    [][\A r \in RuleIds :
        (/\ IsEval(r, "recovery")
         /\ r \in DOMAIN active_alerts
         /\ last_eval'.error = "resolve_event")
        => /\ r \in DOMAIN active_alerts'
           /\ active_alerts'[r] = active_alerts[r]
    ]_vars

\* C38: an evaluation that finds no data changes neither failure_counts
\* nor active_alerts (nor the events), and the breach that follows it
\* adds one to the count the rule had before it.
C38_NoDataKeepsCount ==
    [][\A r \in RuleIds :
        /\ IsEval(r, "no_data") =>
              /\ failure_counts' = failure_counts
              /\ active_alerts' = active_alerts
              /\ alert_events' = alert_events
        /\ (IsEval(r, "breach") /\ last_eval.rule = r
                /\ last_eval.branch = "no_data") =>
              Count(failure_counts', r) = Count(failure_counts, r) + 1
    ]_vars

\* C38 happens: rule 1 has breached twice and was then evaluated without
\* data; its count is still 2.
C38_Witness ==
    /\ last_eval = [rule |-> 1, branch |-> "no_data", error |-> "none"]
    /\ Count(failure_counts, 1) = 2
    /\ alert_rules[1].consecutive_failures = 3

\* C32: a rule without threshold never breaches: check is false for
\* every operator and value, the rule never has an event, a failure count
\* or an active alert, and each of its evaluations with data takes the
\* recovery branch.
C32_NoThresholdNeverBreaches ==
    \A r \in RuleIds :
        alert_rules[r].threshold = None =>
            /\ \A v \in Values : ~check(alert_rules[r], v)
            /\ EventsOf(alert_events, r) = {}
            /\ r \notin DOMAIN failure_counts
            /\ r \notin DOMAIN active_alerts
            /\ last_eval.rule = r => last_eval.branch # "breach"

\* C32 happens: the rule without threshold, with the operator gt, has
\* been evaluated on a value and the recovery branch was taken.
C32_Witness ==
    /\ alert_rules[1].threshold = None
    /\ alert_rules[1].operator = "gt"
    /\ last_eval = [rule |-> 1, branch |-> "recovery", error |-> "none"]
    /\ alert_rules[1].last_evaluated_at # None

----------------------------------------------------------------------------
(* Properties of the evaluator loop *)

\* The rules of the evaluate_rule calls a pass has made, in their order
Evaluated == [i \in DOMAIN pass_log |-> pass_log[i].rule]

\* The rules a pass has still to evaluate
ToEvaluate == [i \in DOMAIN pass_rules |-> pass_rules[i].id]

\* C31: within a pass the rules evaluated so far and the rules still to
\* evaluate are the enabled rules list_enabled returned, whatever the
\* evaluations returned; the next rule can be evaluated; a pass that
\* has ended has evaluated every one of them, also those after a rule
\* whose evaluation failed; and the loop is then at its next tick.
C31_ErrorDoesNotAbortPass ==
    /\ pass_pc \in {"tick", "rules"}
    /\ pass_pc = "rules" =>
          /\ pass_rules # <<>>
          /\ Evaluated \o ToEvaluate = pass_snapshot
          /\ ENABLED EvaluateAllRule
    /\ pass_pc = "tick" =>
          /\ pass_result = "ok" => Evaluated = pass_snapshot
          /\ ENABLED EvaluateAll

\* C31 happens: a pass has ended in which the evaluation of the first rule
\* failed and the second rule was evaluated on a value.
C31_Witness ==
    /\ pass_pc = "tick"
    /\ Len(pass_log) = 2
    /\ pass_log[1].result = "err"
    /\ pass_log[2].result = "ok"
    /\ last_eval.branch \in {"breach", "recovery"}

\* The rule is no longer evaluated: deleted, or disabled
Retired(r) == r \notin DOMAIN alert_rules \/ ~alert_rules[r].enabled

\* C39: once a rule with an active event is disabled or deleted, its
\* event is eventually resolved and its entries in active_alerts and
\* failure_counts are eventually removed.
C39_RetiredRuleEventResolved ==
    \A r \in RuleIds :
        (Retired(r) /\ r \in DOMAIN active_alerts)
            ~> (/\ r \notin DOMAIN active_alerts
                /\ r \notin DOMAIN failure_counts
                /\ \A i \in EventsOf(alert_events, r) :
                      alert_events[i].status = "resolved")

----------------------------------------------------------------------------
(* Properties of the enrichment *)

\* The characters of a string
RECURSIVE CharCount(_)
CharCount(str) ==
    IF str = <<>> THEN 0 ELSE Head(str).n + CharCount(Tail(str))

\* The i-th character of a string
RECURSIVE CharAt(_, _)
CharAt(str, i) ==
    IF i <= Head(str).n THEN Head(str).ch
    ELSE CharAt(Tail(str), i - Head(str).n)

\* A string as the sequence of its characters
Chars(str) == [i \in 1..CharCount(str) |-> CharAt(str, i)]

Dots == <<".", ".", ".">>

PreviewFields == {"prompt_preview", "completion_preview"}

\* enrich_span has returned
Enriched == enrich_result # None /\ ~enrich_result.panicked

\* C26: after enrichment a preview has at most 503
\* characters; a preview of more than 500 characters has become its first
\* 500 characters followed by "...", and a preview of at most 500
\* characters is unchanged.
C26_PreviewCutAt500Chars ==
    Enriched =>
        \A f \in PreviewFields :
            LET p == enrich_arg[1][f]
                q == enrich_result.span[f]
            IN  IF p = None THEN q = None
                ELSE /\ q # None
                     /\ CharCount(q[1]) <= PreviewLimit + 3
                     /\ CharCount(p[1]) > PreviewLimit =>
                           Chars(q[1]) =
                             SubSeq(Chars(p[1]), 1, PreviewLimit) \o Dots
                     /\ CharCount(p[1]) <= PreviewLimit => q = p

\* C34: the truncation of enrich_span applied to a preview that enrich_span
\* has returned (cut to 500 and "..." or left as it was) returns, and
\* returns the same preview.
C34_TruncationIdempotent ==
    Enriched =>
        \A f \in PreviewFields :
            truncate_preview(enrich_result.span[f]) =
                [panicked |-> FALSE, preview |-> enrich_result.span[f]]

\* C34 happens: a preview of 300 characters of two bytes was cut to 250
\* of them and "...", which are 503 bytes, more than 500.
C34_Witness ==
    /\ Enriched
    /\ enrich_arg[1].prompt_preview = Some(<<Run("U+00E9", 300)>>)
    /\ enrich_result.span.prompt_preview =
          Some(<<Run("U+00E9", 250), Run(".", 3)>>)
    /\ len(enrich_result.span.prompt_preview[1]) > PreviewLimit

\* C27: no span makes the processing loop fail during enrichment: the loop
\* goes on to the spans submitted after it.
C27_LoopSurvivesEnrichment == loop_pc # "panicked"

\* C28: after enrichment a span with ended_at has as duration_ms the whole
\* milliseconds of ended_at - started_at, whatever duration it came with:
\* not negative when started_at <= ended_at, 0 for less than a millisecond;
\* a span without ended_at keeps its duration_ms.
C28_DurationFromTimestamps ==
    Enriched =>
        LET span == enrich_arg[1]
            after == enrich_result.span
        IN  IF span.ended_at = None
            THEN after.duration_ms = span.duration_ms
            ELSE LET micros == span.ended_at[1] - span.started_at
                 IN  /\ after.duration_ms # None
                     /\ LET ms == after.duration_ms[1]
                        IN  IF micros >= 0
                            THEN /\ ms >= 0
                                 /\ ms * 1000 <= micros
                                 /\ micros < (ms + 1) * 1000
                            ELSE /\ ms <= 0
                                 /\ (ms - 1) * 1000 < micros
                                 /\ micros <= ms * 1000

\* C28 happens: a span of 999 microseconds submitted with a duration of 7
\* has the duration 0.
C28_Witness ==
    /\ Enriched
    /\ enrich_arg[1].started_at = 1500
    /\ enrich_arg[1].ended_at = Some(2499)
    /\ enrich_arg[1].duration_ms = Some(7)
    /\ enrich_result.span.duration_ms = Some(0)

----------------------------------------------------------------------------
(* Properties of the batch flush *)

\* A step of the loop that calls flush_batch with the spans b
Flushes(b) ==
    /\ last_flush' # last_flush
    /\ last_flush'[1].spans = b
    /\ batch' = <<>>

\* C30: while the loop runs, a batch that reaches batch_size spans is
\* flushed in the step that pushed the last of them, so the loop never
\* waits for a span or a tick with a full batch; at a flush tick a
\* non-empty batch is flushed; and no flush is issued for an empty batch.
C30_FlushWhenFullOrTick ==
    /\ [](loop_pc \in {"select", "process"} => Len(batch) < BatchSize)
    /\ [](loop_pc = "select" /\ batch # <<>> =>
             /\ ENABLED (TickArm /\ Flushes(batch))
             /\ ~ENABLED (TickArm /\ batch' # <<>>))
    /\ [][/\ (loop_pc = "process" /\ loop_pc' = "select"
               /\ Len(batch) + 1 >= BatchSize)
              => Flushes(Append(batch, cur[1]))
          /\ (last_flush' # last_flush) => last_flush'[1].spans # <<>>
         ]_vars

\* The loop is running after the step: neither aborted nor ended
Running == loop_pc' \in {"select", "process"}

\* C36: while the loop runs, the oldest span of the channel is the one
\* received; a received span is pushed at the end of the batch; a flush
\* hands over the whole batch in its order and leaves none of its spans in
\* a buffer, so that no later batch holds them; and a span leaves the
\* buffers of the pipeline only in a batch handed to insert_batch.
C36_ExactlyOneBatchInOrder ==
    [][Running =>
        /\ (loop_pc = "select" /\ loop_pc' = "process") =>
              /\ chan # <<>>
              /\ cur' = Some(Head(chan))
              /\ chan' = Tail(chan)
              /\ batch' = batch
        /\ (loop_pc = "process" /\ loop_pc' = "select") =>
              \/ batch' = Append(batch, cur[1]) /\ last_flush' = last_flush
              \/ /\ last_flush' # last_flush
                 /\ last_flush'[1].spans = Append(batch, cur[1])
        /\ (batch' # batch /\ loop_pc = "select") =>
              /\ last_flush' # last_flush
              /\ last_flush'[1].spans = batch
        /\ (last_flush' # last_flush) =>
              /\ batch' = <<>>
              /\ SeqToSet(last_flush'[1].spans)
                    \cap Buffered(chan', cur', batch') = {}
              /\ FlushedSpans(last_flush) \cap FlushedSpans(last_flush')
                    = {}
        /\ \A s \in Buffered(chan, cur, batch)
                      \ Buffered(chan', cur', batch') :
              /\ last_flush' # last_flush
              /\ s \in FlushedSpans(last_flush')
      ]_vars

\* C36 happens: the first batch_size spans were handed over in one batch,
\* the next span is in the batch and another waits in the channel.
C36_Witness ==
    /\ last_flush # None
    /\ Len(last_flush[1].spans) = BatchSize
    /\ last_flush[1].spans[1] = 1
    /\ Len(batch) = 1
    /\ chan # <<>>
    /\ loop_pc = "select"

\* C30 happens: the first span was flushed alone at a tick, and the next
\* full batch, which starts with the second span, when its last span
\* was pushed.
C30_Witness ==
    /\ last_flush # None
    /\ Len(last_flush[1].spans) = BatchSize
    /\ last_flush[1].spans[1] = 2
    /\ batch = <<>>
    /\ loop_pc = "select"

----------------------------------------------------------------------------
(* Properties of concurrent evaluate_rule calls *)

\* The write guard of active_alerts is only ever held by the task that
\* holds the write guard of failure_counts
LocksTakenInOrder == active_lock # 0 => counts_lock = active_lock

\* A call that has not returned can take a step, or the other one can
NoDeadlock == (\E p \in Tasks : task_pc[p] # "done") => ENABLED ConcNext

\* No storage call of the two calls has returned an error
NoStorageError == task_failed = {}

\* C40: in every interleaving of two evaluate_rule calls on the same rule
\* the locks are taken in the order failure_counts, active_alerts, the
\* calls never block each other for good, and at most one of them creates
\* an event (a call creates one only after it has seen a breach with the
\* failure count at consecutive_failures or above).
C40_BothCompleteOneEvent ==
    /\ LocksTakenInOrder
    /\ NoDeadlock
    /\ Cardinality(task_created) <= 1

\* The same without the count of created events: holds
C40_NoDeadlockInOrder == LocksTakenInOrder /\ NoDeadlock

\* At most one event is created as long as no storage call fails: holds
C40_OneEventWithoutStorageError ==
    NoStorageError => Cardinality(task_created) <= 1

\* Both calls return
C40_BothComplete == <>(\A p \in Tasks : task_pc[p] = "done")

====
